---- MODULE Spec2Model ----
(***************************************************************************)
(* Replication and persistence protocol of drewit: browser clients edit a  *)
(* shared tldraw document; usePusherPersistence accumulates local changes, *)
(* broadcasts them as diffs through POST /api/pusher-trigger and saves     *)
(* full snapshots through POST /api/drawing, both behind createThrottler.  *)
(* Time is counted in ticks. A throttler reads Date.now() only to compare  *)
(* now - lastCall with its delay, so the model keeps that difference       *)
(* (elapsed, which stops counting at delay) in place of the two clocks.    *)
(***************************************************************************)
EXTENDS Integers, Sequences, FiniteSets, Bags, TLC

\* ------------------------------------------------------------------ bounds

MaxEdits == 2          \* local user edits in one behaviour of two clients
MaxSoloEdits == 3      \* local user edits in one behaviour of one client alone
MaxUnloads == 1        \* pages closed in one behaviour
MaxInFlight == 2       \* requests and responses under way when the user makes an edit
MaxApiCalls == 2       \* requests of a caller that is no page of the application
MaxSessionEdits == 2   \* local edits, of the drawing or the view, of users who move their views
MaxFaults == 1         \* failures of the storage, the network or a store method
TransportLimit == 1    \* largest diff (in records) the realtime transport carries
MaxClock == 3          \* latest time a clock of a machine shows

BroadcastDelay == 1    \* createThrottler(60), in ticks
SaveDelay == 2         \* createThrottler(3000), in ticks

Clients == {"A", "B"}
Ids == {"s1", "s2", "a1", "p1"}
DRAWING_ID == "global-canvas"

\* ------------------------------------------------------------------ records

TypeName(id) ==
    CASE id \in {"s1", "s2"} -> "shape"
      [] id = "a1" -> "asset"
      [] id = "p1" -> "page"
      [] OTHER -> "camera"

Rec(id, v) == [id |-> id, typeName |-> TypeName(id), val |-> v]

EmptyMap == [i \in {} |-> 0]

MapPut(m, id, v) == [i \in (DOMAIN m) \cup {id} |-> IF i = id THEN v ELSE m[i]]

MapRemove(m, ids) == [i \in (DOMAIN m) \ ids |-> m[i]]

\* keys of o1 first, then o2's values over them: {...o1, ...o2}
MapMerge(o1, o2) ==
    [i \in (DOMAIN o1) \cup (DOMAIN o2) |-> IF i \in DOMAIN o2 THEN o2[i] ELSE o1[i]]

EmptyChanges == [added |-> EmptyMap, updated |-> EmptyMap, removed |-> EmptyMap]

ChangedIds(ch) == (DOMAIN ch.added) \cup (DOMAIN ch.updated) \cup (DOMAIN ch.removed)

\* the size the transport measures, counted in records
SizeOf(ch) ==
    Cardinality(DOMAIN ch.added) + Cardinality(DOMAIN ch.updated)
        + Cardinality(DOMAIN ch.removed)

\* getSnapshot(store): the records of the store
getSnapshot(st) == st

IsEmptySnapshot(snap) == DOMAIN snap = {}

\* The change sets one atomic user mutation of store st can produce.
UserChanges(st) ==
    {[added |-> MapPut(EmptyMap, id, Rec(id, 1)), updated |-> EmptyMap,
      removed |-> EmptyMap] : id \in Ids \ DOMAIN st}
    \cup
    {[added |-> EmptyMap,
      updated |-> MapPut(EmptyMap, id, <<st[id], Rec(id, 3 - st[id].val)>>),
      removed |-> EmptyMap] : id \in Ids \cap DOMAIN st}
    \cup
    {[added |-> EmptyMap, updated |-> EmptyMap,
      removed |-> MapPut(EmptyMap, id, st[id])] : id \in Ids \cap DOMAIN st}

\* The change sets of the user's view of the canvas: the camera record.
SessionIds == {"c1"}

SessionChanges(st) ==
    {[added |-> MapPut(EmptyMap, id, Rec(id, 1)), updated |-> EmptyMap,
      removed |-> EmptyMap] : id \in SessionIds \ DOMAIN st}
    \cup
    {[added |-> EmptyMap,
      updated |-> MapPut(EmptyMap, id, <<st[id], Rec(id, 3 - st[id].val)>>),
      removed |-> EmptyMap] : id \in SessionIds \cap DOMAIN st}

\* the scope of a record type
Scope(typeName) ==
    IF typeName \in {"shape", "asset", "page", "document"} THEN "document" ELSE "session"

\* the part of a change set a listener with filter {scope} is told
ScopedChanges(scope, ch) ==
    [added |-> [i \in {j \in DOMAIN ch.added :
                         scope = "all" \/ Scope(ch.added[j].typeName) = scope}
                  |-> ch.added[i]],
     updated |-> [i \in {j \in DOMAIN ch.updated :
                         scope = "all" \/ Scope(ch.updated[j][2].typeName) = scope}
                  |-> ch.updated[i]],
     removed |-> [i \in {j \in DOMAIN ch.removed :
                         scope = "all" \/ Scope(ch.removed[j].typeName) = scope}
                  |-> ch.removed[i]]]

\* What a change set does to the store it was made on.
ApplyChanges(st, ch) ==
    LET kept == MapRemove(st, DOMAIN ch.removed)
        upd  == [i \in DOMAIN ch.updated |-> ch.updated[i][2]]
    IN  MapMerge(MapMerge(kept, ch.added), upd)

\* ------------------------------------------------------------------ createThrottler

\* The closure state of one createThrottler(delay): elapsed is now - lastCall
\* (lastCall starts at 0, so the first call finds it past the delay), timeout
\* is 0 for null, otherwise the handle setTimeout returned, pendingArgs is <<>>
\* for null, otherwise <<args>>; timers are the timers of the event loop this
\* throttler set and has not cleared, each with the time left until it is due.
NoTimer == 0

NewThrottler(delay) ==
    [delay |-> delay, elapsed |-> delay, timeout |-> NoTimer, pendingArgs |-> <<>>,
     timers |-> {}]

FreshHandle(t) == CHOOSE h \in 1..(Cardinality(t.timers) + 1) : \A x \in t.timers : x.h # h

clearTimeout(t, h) == [t EXCEPT !.timers = {x \in t.timers : x.h # h}]

setTimeout(t, ms) ==
    LET h == FreshHandle(t)
    IN  [t EXCEPT !.timers = t.timers \cup {[h |-> h, left |-> ms]}, !.timeout = h]

\* execute(): returns the throttler after the call and the arguments the
\* wrapped function was invoked with (run = <<>> when it was not invoked).
execute(t) ==
    [thr |-> [t EXCEPT !.elapsed = 0, !.timeout = NoTimer, !.pendingArgs = <<>>],
     run |-> t.pendingArgs]

\* a throttler that drops a call made inside the window (no trailing edge)
throttledLeadingOnly(t, args) ==
    LET t1 == [t EXCEPT !.pendingArgs = <<args>>]
    IN  IF t1.elapsed >= t1.delay
        THEN execute(IF t1.timeout # NoTimer THEN clearTimeout(t1, t1.timeout) ELSE t1)
        ELSE [thr |-> t1, run |-> <<>>]

\* a throttler that schedules a timer at every call made inside the window
throttledTimerPerCall(t, args) ==
    LET t1 == [t EXCEPT !.pendingArgs = <<args>>]
    IN  IF t1.elapsed >= t1.delay
        THEN execute(IF t1.timeout # NoTimer THEN clearTimeout(t1, t1.timeout) ELSE t1)
        ELSE [thr |-> setTimeout(t1, t1.delay - t1.elapsed), run |-> <<>>]

\* a throttler whose timer waits for the time already elapsed, not for the
\* rest of the delay
throttledElapsedTimer(t, args) ==
    LET t1 == [t EXCEPT !.pendingArgs = <<args>>]
    IN  IF t1.elapsed >= t1.delay
        THEN execute(IF t1.timeout # NoTimer THEN clearTimeout(t1, t1.timeout) ELSE t1)
        ELSE IF t1.timeout = NoTimer
             THEN [thr |-> setTimeout(t1, t1.elapsed), run |-> <<>>]
             ELSE [thr |-> t1, run |-> <<>>]

\* One call of the throttled function with arguments args.
throttled(t, args) ==
    LET t1 == [t EXCEPT !.pendingArgs = <<args>>]
    IN  IF t1.elapsed >= t1.delay
        THEN execute(IF t1.timeout # NoTimer THEN clearTimeout(t1, t1.timeout) ELSE t1)
        ELSE IF t1.timeout = NoTimer
             THEN [thr |-> setTimeout(t1, t1.delay - t1.elapsed), run |-> <<>>]
             ELSE [thr |-> t1, run |-> <<>>]

\* The event loop runs a timer of the throttler: the timer is gone, execute() runs.
timerCallback(t, h) == execute(clearTimeout(t, h))

Due(t) == {x.h : x \in {y \in t.timers : y.left = 0}}

Running(t) == t.elapsed < t.delay \/ \E x \in t.timers : x.left > 0

\* one tick of the clock, as this throttler sees it
Elapse(t) ==
    [t EXCEPT !.elapsed = IF @ < t.delay THEN @ + 1 ELSE @,
              !.timers = {[h |-> x.h, left |-> IF x.left > 0 THEN x.left - 1 ELSE 0] :
                          x \in t.timers}]

\* ------------------------------------------------------------------ state

VARIABLES
    budget,               \* the edits, page unloads, failures and outside calls the
                          \*   environment may still make
    server,               \* which backend is deployed: "express" or "vercel"
    db,                   \* the Drawing row of DRAWING_ID: <<>> or <<snapshot>>
    store,                \* per client: the tldraw store, id -> record
    loadingState,         \* per client: 'loading' | 'ready' | 'error'
    isUpdatingFromRemote, \* per client
    isDirtyRef,           \* per client
    pendingChangesRef,    \* per client: {added, updated, removed}
    throttledSave,        \* per client: createThrottler(3000)(doSaveToDb)
    throttledBroadcast,   \* per client: createThrottler(60)(broadcast)
    closed,               \* per client: the page was unloaded
    pusher,               \* per client: "unconfigured" (no key: pusherRef.current is
                          \*   null), "connecting" (no socket_id yet) or "connected"
    inbox,                \* per client: channel events delivered, not yet handled
    reqs,                 \* bag of the requests in flight
    resps,                \* bag of the responses in flight to a waiting continuation
    window,               \* per client history: its edits that no diff dispatch covers yet
    burst,                \* per client history: the ids its edits added in the current
                          \*   throttle window of throttledBroadcast
    unsent,               \* per client history: an edit was made since it last sent a snapshot
    failed,               \* per client history: a throttled save failed and no snapshot
                          \*   was sent since
    removedIds,           \* history: the ids some user edit removed
    refused,              \* history: the last request whose diff the transport refused
    lastAnswer,           \* history: the request of another HTTP caller that was served
                          \*   last, its answer and the row before it
    lastUpdateTimestamp,  \* per client, in the hook that replicates full snapshots
                          \*   (useMongoosePersistence.ts): lastUpdateTimestamp.current
    clock                 \* per client: what Date.now() returns on its machine

vars ==
    <<budget, server, db, store, loadingState, isUpdatingFromRemote, isDirtyRef,
      pendingChangesRef, throttledSave, throttledBroadcast, closed, pusher, inbox,
      reqs, resps, window, burst, unsent, failed, removedIds, refused, lastAnswer,
      lastUpdateTimestamp, clock>>

clientVars ==
    <<store, loadingState, isUpdatingFromRemote, isDirtyRef, pendingChangesRef,
      throttledSave, throttledBroadcast, closed, pusher>>

histVars == <<window, burst, unsent, failed, removedIds>>

\* the variables of the hook that replicates full snapshots
snapshotVars == <<lastUpdateTimestamp, clock>>

\* pusherRef.current?.connection.socket_id: undefined, here <<>>, while there
\* is no Pusher object or its connection has no socket id yet
SocketId(c) == IF pusher[c] = "connected" THEN <<c>> ELSE <<>>

Request(c, method, path, snapshot, changes, triggerReload, ctx) ==
    [from |-> c, method |-> method, path |-> path, id |-> DRAWING_ID,
     snapshot |-> snapshot, changes |-> changes, triggerReload |-> triggerReload,
     socketId |-> IF path = "/api/pusher-trigger" THEN SocketId(c) ELSE <<>>,
     ctx |-> ctx, covers |-> <<>>, burst |-> {}]

GetDrawing(c, isReload) ==
    Request(c, "GET", "/api/drawing", <<>>, <<>>, FALSE,
            IF isReload THEN "reload" ELSE "load")

SeqToBag(q) == LET sum[i \in 0..Len(q)] ==
                       IF i = 0 THEN EmptyBag ELSE sum[i - 1] (+) SetToBag({q[i]})
               IN  sum[Len(q)]

\* The requests the mount effect sends: loadFromDb() is called before the
\* guard on PUSHER_KEY and PUSHER_CLUSTER. The first definition has the call
\* after the guard.
MountRequestsAfterGuard(c) ==
    IF pusher[c] = "unconfigured" THEN <<>> ELSE <<GetDrawing(c, FALSE)>>

MountRequests(c) == <<GetDrawing(c, FALSE)>>

InitClients ==
    /\ store = [c \in Clients |-> EmptyMap]
    /\ loadingState = [c \in Clients |-> "loading"]
    /\ isUpdatingFromRemote = [c \in Clients |-> FALSE]
    /\ isDirtyRef = [c \in Clients |-> FALSE]
    /\ pendingChangesRef = [c \in Clients |-> EmptyChanges]
    /\ throttledSave = [c \in Clients |-> NewThrottler(SaveDelay)]
    /\ throttledBroadcast = [c \in Clients |-> NewThrottler(BroadcastDelay)]
    /\ closed = [c \in Clients |-> FALSE]
    /\ pusher = [c \in Clients |-> "connected"]
    /\ inbox = [c \in Clients |-> <<>>]
    /\ reqs = SeqToBag(MountRequests("A") \o MountRequests("B"))
    /\ resps = EmptyBag
    /\ window = [c \in Clients |-> <<>>]
    /\ burst = [c \in Clients |-> {}]
    /\ unsent = [c \in Clients |-> FALSE]
    /\ failed = [c \in Clients |-> FALSE]
    /\ lastUpdateTimestamp = [c \in Clients |-> 0]
    /\ clock = [c \in Clients |-> 0]
    /\ removedIds = {}
    /\ refused = <<>>
    /\ lastAnswer = <<>>

Init ==
    /\ budget = [edits |-> MaxEdits, unloads |-> MaxUnloads, faults |-> 0,
                 calls |-> 0]
    /\ server \in {"express", "vercel"}
    /\ db = <<>>
    /\ InitClients

\* ------------------------------------------------------------------ client: outbound

\* doSaveToDb(isImmediate) up to its fetch, for client c with isDirtyRef
\* dirty, isUpdatingFromRemote updating and the store st: the requests it
\* sends. The first definition forgets isImmediate when it has sent.
doSaveToDbForgetful(c, isImmediate, dirty, updating, st) ==
    IF ~dirty \/ (updating /\ ~isImmediate)
    THEN <<>>
    ELSE IF IsEmptySnapshot(getSnapshot(st))
         THEN <<>>
         ELSE <<Request(c, "POST", "/api/drawing", <<getSnapshot(st)>>, <<>>, FALSE,
                        "save")>>

doSaveToDb(c, isImmediate, dirty, updating, st) ==
    IF ~dirty \/ (updating /\ ~isImmediate)
    THEN <<>>
    ELSE IF IsEmptySnapshot(getSnapshot(st))
         THEN <<>>
         ELSE <<Request(c, "POST", "/api/drawing", <<getSnapshot(st)>>, <<>>, FALSE,
                        IF isImmediate THEN "saveImmediate" ELSE "save")>>

\* the function wrapped by throttledBroadcast
broadcast(c, changes) ==
    <<Request(c, "POST", "/api/pusher-trigger", <<>>, <<changes>>, FALSE, "none")>>

Replicated(typeName) == typeName = "shape" \/ typeName = "asset"

\* the three accumulation loops of the store listener
Accumulate(pending, changes) ==
    [added |-> MapMerge(pending.added,
                  [i \in {j \in DOMAIN changes.added :
                            Replicated(changes.added[j].typeName)} |-> changes.added[i]]),
     updated |-> MapMerge(pending.updated,
                  [i \in {j \in DOMAIN changes.updated :
                            Replicated(changes.updated[j][2].typeName)} |-> changes.updated[i]]),
     removed |-> MapMerge(pending.removed,
                  [i \in {j \in DOMAIN changes.removed :
                            Replicated(changes.removed[j].typeName)} |-> changes.removed[i]])]

HasAsset(changes) ==
    \/ \E i \in DOMAIN changes.added : changes.added[i].typeName = "asset"
    \/ \E i \in DOMAIN changes.updated : changes.updated[i][2].typeName = "asset"

\* the listener without its guard on the source of the update
StoreListenerAnySource(c, update, st, updating) ==
    LET quiet == [dirty |-> isDirtyRef[c], pending |-> pendingChangesRef[c],
                  save |-> throttledSave[c], bcast |-> throttledBroadcast[c],
                  posts |-> <<>>]
    IN  IF loadingState[c] # "ready"
        THEN quiet
        ELSE LET pending == Accumulate(pendingChangesRef[c], update.changes)
             IN  IF HasAsset(update.changes)
                 THEN [quiet EXCEPT !.dirty = TRUE, !.pending = pending,
                         !.posts = doSaveToDb(c, TRUE, TRUE, updating, st)]
                 ELSE LET b == throttled(throttledBroadcast[c], <<pending>>)
                          s == throttled(throttledSave[c], <<>>)
                          bp == IF b.run = <<>> THEN <<>> ELSE broadcast(c, b.run[1][1])
                          sp == IF s.run = <<>> THEN <<>>
                                ELSE doSaveToDb(c, FALSE, TRUE, updating, st)
                      IN  [dirty |-> TRUE, pending |-> EmptyChanges,
                           save |-> s.thr, bcast |-> b.thr, posts |-> bp \o sp]

\* The callback given to store.listen, run on one update of client c whose
\* store is st after the update, with isUpdatingFromRemote as given. Returns
\* the client's refs after the callback and the requests it sent.
StoreListener(c, update, st, updating) ==
    LET quiet == [dirty |-> isDirtyRef[c], pending |-> pendingChangesRef[c],
                  save |-> throttledSave[c], bcast |-> throttledBroadcast[c],
                  posts |-> <<>>]
    IN  IF loadingState[c] # "ready" \/ update.source # "user"
        THEN quiet
        ELSE LET pending == Accumulate(pendingChangesRef[c], update.changes)
             IN  IF HasAsset(update.changes)
                 THEN [quiet EXCEPT !.dirty = TRUE, !.pending = pending,
                         !.posts = doSaveToDb(c, TRUE, TRUE, updating, st)]
                 ELSE LET b == throttled(throttledBroadcast[c], <<pending>>)
                          s == throttled(throttledSave[c], <<>>)
                          bp == IF b.run = <<>> THEN <<>> ELSE broadcast(c, b.run[1][1])
                          sp == IF s.run = <<>> THEN <<>>
                                ELSE doSaveToDb(c, FALSE, TRUE, updating, st)
                      IN  [dirty |-> TRUE, pending |-> EmptyChanges,
                           save |-> s.thr, bcast |-> b.thr, posts |-> bp \o sp]

\* store.listen(callback, {scope}): the store calls the callback with the
\* changes of the records of that scope, and not at all when there is none.
listen(scope, c, update, st, updating) ==
    LET told == ScopedChanges(scope, update.changes)
    IN  IF ChangedIds(told) = {}
        THEN [dirty |-> isDirtyRef[c], pending |-> pendingChangesRef[c],
              save |-> throttledSave[c], bcast |-> throttledBroadcast[c],
              posts |-> <<>>]
        ELSE StoreListener(c, [update EXCEPT !.changes = told], st, updating)

\* the listener registered with { scope: 'all' }
storeListenAllScopes(c, update, st, updating) == listen("all", c, update, st, updating)

\* the listener as the hook registers it, with { scope: 'document' }
storeListen(c, update, st, updating) == listen("document", c, update, st, updating)

IsDiffPost(rq) == rq.path = "/api/pusher-trigger" /\ rq.changes # <<>>

IsSnapshotPost(rq) == rq.snapshot # <<>>

\* the edits of win up to the latest one that called throttledBroadcast
LastCall(win) ==
    LET calls == {k \in 1..Len(win) : ~HasAsset(win[k])}
    IN  IF calls = {} THEN 0 ELSE CHOOSE k \in calls : \A m \in calls : m <= k

\* The client c sends the requests posts. The histories follow: win is the
\* sequence of its edits that no diff dispatch covers yet and bst the ids
\* added in its throttle window, both before this send. A diff post covers
\* the edits up to the latest call of throttledBroadcast and is marked with
\* them; the edits after that call stay in the window.
Send(c, posts, win, bst, edited) ==
    LET diffs == SelectSeq(posts, IsDiffPost)
        snaps == SelectSeq(posts, IsSnapshotPost)
        mark(rq) == IF IsDiffPost(rq)
                    THEN [rq EXCEPT !.covers = SubSeq(win, 1, LastCall(win)),
                                    !.burst = bst]
                    ELSE rq
    IN  /\ reqs' = reqs (+) SeqToBag([i \in 1..Len(posts) |-> mark(posts[i])])
        /\ window' = [window EXCEPT ![c] =
                        IF diffs = <<>> THEN win
                        ELSE SubSeq(win, LastCall(win) + 1, Len(win))]
        /\ burst' = [burst EXCEPT ![c] = bst]
        /\ unsent' = [unsent EXCEPT ![c] = IF snaps = <<>> THEN @ \/ edited ELSE FALSE]
        /\ failed' = [failed EXCEPT ![c] = IF snaps = <<>> THEN @ ELSE FALSE]

\* A local user mutation of the store, and the listener it triggers.
UserEdit(c, ch) ==
    /\ ~closed[c]
    /\ loadingState[c] = "ready"
    /\ budget.edits > 0
    /\ BagCardinality(reqs) + BagCardinality(resps) < MaxInFlight
    /\ budget' = [budget EXCEPT !.edits = @ - 1]
    /\ ch \in UserChanges(store[c])
    /\ LET st == ApplyChanges(store[c], ch)
           r == StoreListener(c, [source |-> "user", changes |-> ch], st,
                              isUpdatingFromRemote[c])
       IN  /\ store' = [store EXCEPT ![c] = st]
           /\ isDirtyRef' = [isDirtyRef EXCEPT ![c] = r.dirty]
           /\ pendingChangesRef' = [pendingChangesRef EXCEPT ![c] = r.pending]
           /\ throttledSave' = [throttledSave EXCEPT ![c] = r.save]
           /\ throttledBroadcast' = [throttledBroadcast EXCEPT ![c] = r.bcast]
           /\ Send(c, r.posts, Append(window[c], ch),
                   (IF throttledBroadcast[c].elapsed < throttledBroadcast[c].delay
                    THEN burst[c] ELSE {}) \cup DOMAIN ch.added, TRUE)
           /\ removedIds' = removedIds \cup DOMAIN ch.removed
    /\ UNCHANGED <<server, db, loadingState, isUpdatingFromRemote, closed, pusher, inbox,
                   resps, refused, lastAnswer>>
    /\ UNCHANGED snapshotVars

\* The user moves the view: a local mutation of a session record, of which
\* the store tells its listeners.
SessionEdit(c, ch) ==
    /\ ~closed[c]
    /\ loadingState[c] = "ready"
    /\ budget.edits > 0
    /\ BagCardinality(reqs) + BagCardinality(resps) < MaxInFlight
    /\ budget' = [budget EXCEPT !.edits = @ - 1]
    /\ ch \in SessionChanges(store[c])
    /\ LET st == ApplyChanges(store[c], ch)
           r == storeListen(c, [source |-> "user", changes |-> ch], st,
                            isUpdatingFromRemote[c])
       IN  /\ store' = [store EXCEPT ![c] = st]
           /\ isDirtyRef' = [isDirtyRef EXCEPT ![c] = r.dirty]
           /\ pendingChangesRef' = [pendingChangesRef EXCEPT ![c] = r.pending]
           /\ throttledSave' = [throttledSave EXCEPT ![c] = r.save]
           /\ throttledBroadcast' = [throttledBroadcast EXCEPT ![c] = r.bcast]
           /\ Send(c, r.posts, window[c], burst[c], FALSE)
    /\ UNCHANGED <<server, db, loadingState, isUpdatingFromRemote, closed, pusher, inbox,
                   resps, removedIds, refused, lastAnswer>>
    /\ UNCHANGED snapshotVars

\* a timer of throttledBroadcast comes due
BroadcastTimer(c, h) ==
    /\ ~closed[c]
    /\ h \in Due(throttledBroadcast[c])
    /\ LET r == timerCallback(throttledBroadcast[c], h)
       IN  /\ throttledBroadcast' = [throttledBroadcast EXCEPT ![c] = r.thr]
           /\ Send(c, IF r.run = <<>> THEN <<>> ELSE broadcast(c, r.run[1][1]),
                   window[c], burst[c], FALSE)
    /\ UNCHANGED <<budget, server, db, store, loadingState, isUpdatingFromRemote, isDirtyRef,
                   pendingChangesRef, throttledSave, closed, pusher, inbox, resps, removedIds,
                   refused, lastAnswer>>
    /\ UNCHANGED snapshotVars

\* a timer of throttledSave comes due
SaveTimer(c, h) ==
    /\ ~closed[c]
    /\ h \in Due(throttledSave[c])
    /\ LET r == timerCallback(throttledSave[c], h)
       IN  /\ throttledSave' = [throttledSave EXCEPT ![c] = r.thr]
           /\ Send(c, IF r.run = <<>> THEN <<>>
                      ELSE doSaveToDb(c, FALSE, isDirtyRef[c], isUpdatingFromRemote[c],
                                      store[c]),
                   window[c], burst[c], FALSE)
    /\ UNCHANGED <<budget, server, db, store, loadingState, isUpdatingFromRemote, isDirtyRef,
                   pendingChangesRef, throttledBroadcast, closed, pusher, inbox, resps,
                   removedIds, refused, lastAnswer>>
    /\ UNCHANGED snapshotVars

\* doSaveToDb after its fetch resolved with response rsp
SaveResponse(c, rsp) ==
    /\ BagIn(rsp, resps)
    /\ ~closed[c]
    /\ rsp.to = c
    /\ rsp.ctx \in {"save", "saveImmediate"}
    /\ resps' = resps (-) SetToBag({rsp})
    /\ IF rsp.status = 200
       THEN /\ isDirtyRef' = [isDirtyRef EXCEPT ![c] = FALSE]
            /\ Send(c, IF rsp.ctx = "saveImmediate"
                       THEN <<Request(c, "POST", "/api/pusher-trigger", <<>>, <<>>,
                                      TRUE, "none")>>
                       ELSE <<>>, window[c], burst[c], FALSE)
       ELSE /\ UNCHANGED <<isDirtyRef, reqs, window, burst, unsent>>
            /\ failed' = [failed EXCEPT ![c] = @ \/ rsp.ctx = "save"]
    /\ UNCHANGED <<budget, server, db, store, loadingState, isUpdatingFromRemote,
                   pendingChangesRef, throttledSave, throttledBroadcast, closed, pusher, inbox,
                   removedIds, refused, lastAnswer>>
    /\ UNCHANGED snapshotVars

\* handleBeforeUnload, registered once the status is 'ready': the beacon it
\* queues for client c with loading status status, isDirtyRef dirty and the
\* store st. The first definition does not look at the size of the store.
handleBeforeUnloadAnySnapshot(c, status, dirty, st) ==
    IF status = "ready" /\ dirty
    THEN <<Request(c, "POST", "/api/drawing", <<getSnapshot(st)>>, <<>>, FALSE, "beacon")>>
    ELSE <<>>

handleBeforeUnload(c, status, dirty, st) ==
    IF status = "ready" /\ dirty /\ ~IsEmptySnapshot(getSnapshot(st))
    THEN <<Request(c, "POST", "/api/drawing", <<getSnapshot(st)>>, <<>>, FALSE, "beacon")>>
    ELSE <<>>

\* handleBeforeUnload, then the page is gone: its timers, its subscription
\* and the continuations waiting for a response go with it
BeforeUnload(c) ==
    /\ ~closed[c]
    /\ budget.unloads > 0
    /\ budget' = [budget EXCEPT !.unloads = @ - 1]
    /\ closed' = [closed EXCEPT ![c] = TRUE]
    /\ LET posts == handleBeforeUnload(c, loadingState[c], isDirtyRef[c], store[c])
       IN  /\ reqs' = reqs (+) SeqToBag(posts)
           /\ unsent' = [unsent EXCEPT ![c] = IF posts = <<>> THEN @ ELSE FALSE]
           /\ failed' = [failed EXCEPT ![c] = IF posts = <<>> THEN @ ELSE FALSE]
    /\ throttledSave' = [throttledSave EXCEPT ![c] = NewThrottler(SaveDelay)]
    /\ throttledBroadcast' = [throttledBroadcast EXCEPT ![c] = NewThrottler(BroadcastDelay)]
    /\ pendingChangesRef' = [pendingChangesRef EXCEPT ![c] = EmptyChanges]
    /\ inbox' = [inbox EXCEPT ![c] = <<>>]
    /\ resps' = [r \in {x \in DOMAIN resps : x.to # c} |-> resps[r]]
    /\ UNCHANGED <<server, db, store, loadingState, isUpdatingFromRemote, isDirtyRef,
                   pusher, window, burst, removedIds, refused, lastAnswer>>
    /\ UNCHANGED snapshotVars

\* ------------------------------------------------------------------ client: inbound

\* response.ok
Ok(status) == status >= 200 /\ status <= 299

\* A value the row can hold that is no snapshot, the field being of type
\* Mixed: an object with neither a schema nor a store property.
Foreign == [foo |-> [id |-> "foo", typeName |-> "none", val |-> 0]]

\* snapshot.store is defined, so that Object.keys(snapshot.store) returns
HasStore(snapshot) == snapshot # Foreign

\* What a call of a store method that validates records can do: return, or
\* throw out of the handler that called it.
CallOutcomes == IF budget.faults > 0 THEN {"returns", "throws"} ELSE {"returns"}

SpendCall(outcome) ==
    budget' = IF outcome = "returns" THEN budget ELSE [budget EXCEPT !.faults = @ - 1]

\* The three lines of an inbound handler around its mutation of the store:
\* isUpdatingFromRemote.current = true, the call that makes the store
\* result (mergeRemoteChanges or loadSnapshot), isUpdatingFromRemote.current
\* = false. Returns the states of the store and the flag the handler goes
\* through, from st and updating, each with the line that made it; a call
\* that throws leaves the handler before the store is changed. The first
\* definition sets the flag after the call.
updateFromRemoteLate(st, updating, result, outcome) ==
    LET s0 == [at |-> "entered", store |-> st, updating |-> updating]
        s1 == [s0 EXCEPT !.at = "mutated", !.store = result]
        s2 == [s1 EXCEPT !.at = "flagged", !.updating = TRUE]
        s3 == [s2 EXCEPT !.at = "released", !.updating = FALSE]
    IN  IF outcome = "throws"
        THEN <<s0, [s0 EXCEPT !.at = "flagged", !.updating = TRUE]>>
        ELSE <<s0, s1, s2, s3>>

updateFromRemote(st, updating, result, outcome) ==
    LET s0 == [at |-> "entered", store |-> st, updating |-> updating]
        s1 == [s0 EXCEPT !.at = "flagged", !.updating = TRUE]
        s2 == [s1 EXCEPT !.at = "mutated", !.store = result]
        s3 == [s2 EXCEPT !.at = "released", !.updating = FALSE]
    IN  IF outcome = "throws" THEN <<s0, s1>> ELSE <<s0, s1, s2, s3>>

\* the state in which the handler leaves the store and the flag
Left(steps) == steps[Len(steps)]

\* the flag as the listeners of the store find it when the call tells them
\* of the change
FlagAtChange(steps) ==
    LET k == CHOOSE i \in 1..Len(steps) : steps[i].at = "mutated"
    IN  steps[k].updating

\* The body of loadFromDb(isReload) from the point where its fetch has
\* settled with rsp (status 0: fetch rejected), the store being st, the
\* loading status status and isUpdatingFromRemote updating; loadSnapshot
\* does what outcome says. Returns the three after the call.
loadFromDbNoNullGuard(rsp, isReload, st, status, updating, outcome) ==
    LET caught == IF isReload THEN status ELSE "error"
    IN  IF rsp.status = 0
        THEN [store |-> st, status |-> caught, updating |-> updating]
        ELSE IF ~Ok(rsp.status)
        THEN [store |-> st, status |-> "ready", updating |-> updating]
        ELSE IF rsp.body = <<>>
        THEN [store |-> st, status |-> caught, updating |-> updating]
        ELSE IF ~HasStore(rsp.body[1])
        THEN [store |-> st, status |-> caught, updating |-> updating]
        ELSE IF IsEmptySnapshot(rsp.body[1])
        THEN [store |-> st, status |-> "ready", updating |-> updating]
        ELSE LET left == Left(updateFromRemote(st, updating, rsp.body[1], outcome))
             IN  [store |-> left.store,
                  status |-> IF outcome = "throws" THEN caught ELSE "ready",
                  updating |-> left.updating]

loadFromDb(rsp, isReload, st, status, updating, outcome) ==
    LET caught == IF isReload THEN status ELSE "error"
    IN  IF rsp.status = 0
        THEN [store |-> st, status |-> caught, updating |-> updating]
        ELSE IF ~Ok(rsp.status)
        THEN [store |-> st, status |-> "ready", updating |-> updating]
        ELSE IF rsp.body = <<>>
        THEN [store |-> st, status |-> "ready", updating |-> updating]
        ELSE IF ~HasStore(rsp.body[1])
        THEN [store |-> st, status |-> caught, updating |-> updating]
        ELSE IF IsEmptySnapshot(rsp.body[1])
        THEN [store |-> st, status |-> "ready", updating |-> updating]
        ELSE LET left == Left(updateFromRemote(st, updating, rsp.body[1], outcome))
             IN  [store |-> left.store,
                  status |-> IF outcome = "throws" THEN caught ELSE "ready",
                  updating |-> left.updating]

\* The requests loadFromDb sends after its read, the store being st: none,
\* it has no fetch but the GET. The first definition writes the snapshot of
\* the store over a row that holds no valid snapshot, and when there is no
\* row.
loadFromDbSeeding(c, rsp, st) ==
    IF Ok(rsp.status) /\ (rsp.body = <<>> \/ ~HasStore(rsp.body[1]))
    THEN <<Request(c, "POST", "/api/drawing", <<getSnapshot(st)>>, <<>>, FALSE, "none")>>
    ELSE <<>>

loadFromDbPosts(c, rsp, st) == <<>>

\* loadFromDb after its fetch settled with response rsp
LoadResponse(c, rsp) ==
    /\ BagIn(rsp, resps)
    /\ ~closed[c]
    /\ rsp.to = c
    /\ rsp.ctx \in {"load", "reload"}
    /\ resps' = resps (-) SetToBag({rsp})
    /\ \E outcome \in IF Ok(rsp.status) /\ rsp.body # <<>>
                           /\ HasStore(rsp.body[1])
                           /\ ~IsEmptySnapshot(rsp.body[1])
                        THEN CallOutcomes ELSE {"returns"} :
          LET r == loadFromDb(rsp, rsp.ctx = "reload", store[c], loadingState[c],
                              isUpdatingFromRemote[c], outcome)
          IN  /\ SpendCall(outcome)
              /\ store' = [store EXCEPT ![c] = r.store]
              /\ loadingState' = [loadingState EXCEPT ![c] = r.status]
              /\ isUpdatingFromRemote' = [isUpdatingFromRemote EXCEPT ![c] = r.updating]
    /\ reqs' = reqs (+) SeqToBag(loadFromDbPosts(c, rsp, store[c]))
    /\ UNCHANGED <<server, db, isDirtyRef, pendingChangesRef,
                   throttledSave, throttledBroadcast, closed, pusher, inbox, histVars,
                   refused, lastAnswer>>
    /\ UNCHANGED snapshotVars

\* The body of store.mergeRemoteChanges in the drawing-diff handler: the
\* removed ids are removed, then the added records and the new values of the
\* updated ones are put. The first definition puts an added record only
\* when the store has no record of its id.
MergeDiffAddAbsentOnly(st, changes) ==
    LET kept == MapRemove(st, DOMAIN changes.removed)
        upd  == [i \in DOMAIN changes.updated |-> changes.updated[i][2]]
        new  == [i \in (DOMAIN changes.added) \ (DOMAIN st) |-> changes.added[i]]
    IN  MapMerge(kept, MapMerge(new, upd))

MergeDiff(st, changes) ==
    LET kept == MapRemove(st, DOMAIN changes.removed)
        upd  == [i \in DOMAIN changes.updated |-> changes.updated[i][2]]
    IN  MapMerge(kept, MapMerge(changes.added, upd))

\* channel.bind('drawing-diff', ...)
ReceiveDiff(c) ==
    /\ ~closed[c]
    /\ inbox[c] # <<>>
    /\ Head(inbox[c]).name = "drawing-diff"
    /\ \E outcome \in CallOutcomes :
          /\ SpendCall(outcome)
          /\ IF outcome = "throws"
             THEN \* the exception leaves the handler before its last line
                  /\ isUpdatingFromRemote' =
                         [isUpdatingFromRemote EXCEPT ![c] =
                             Left(updateFromRemote(store[c], @, store[c], outcome)).updating]
                  /\ UNCHANGED <<store, isDirtyRef, pendingChangesRef, throttledSave,
                                 throttledBroadcast, reqs, window, burst, unsent,
                                 failed>>
             ELSE LET changes == Head(inbox[c]).changes
                      steps == updateFromRemote(store[c], isUpdatingFromRemote[c],
                                                MergeDiff(store[c], changes), outcome)
                      st == Left(steps).store
                      r == StoreListener(c, [source |-> "remote", changes |-> changes],
                                         st, FlagAtChange(steps))
                  IN  /\ store' = [store EXCEPT ![c] = st]
                      /\ isDirtyRef' = [isDirtyRef EXCEPT ![c] = r.dirty]
                      /\ pendingChangesRef' = [pendingChangesRef EXCEPT ![c] = r.pending]
                      /\ throttledSave' = [throttledSave EXCEPT ![c] = r.save]
                      /\ throttledBroadcast' = [throttledBroadcast EXCEPT ![c] = r.bcast]
                      /\ Send(c, r.posts, window[c], burst[c], FALSE)
                      /\ isUpdatingFromRemote' =
                             [isUpdatingFromRemote EXCEPT ![c] = Left(steps).updating]
    /\ inbox' = [inbox EXCEPT ![c] = Tail(inbox[c])]
    /\ UNCHANGED <<server, db, loadingState, closed, pusher, resps, removedIds, refused,
                   lastAnswer>>
    /\ UNCHANGED snapshotVars

\* channel.bind('drawing-reload', () => loadFromDb(true))
ReceiveReload(c) ==
    /\ ~closed[c]
    /\ inbox[c] # <<>>
    /\ Head(inbox[c]).name = "drawing-reload"
    /\ reqs' = reqs (+) SetToBag({GetDrawing(c, TRUE)})
    /\ inbox' = [inbox EXCEPT ![c] = Tail(inbox[c])]
    /\ UNCHANGED <<budget, server, db, clientVars, resps, histVars, refused, lastAnswer>>
    /\ UNCHANGED snapshotVars

\* an event no handler is bound to: pusher-js drops it
ReceiveUnbound(c) ==
    /\ ~closed[c]
    /\ inbox[c] # <<>>
    /\ Head(inbox[c]).name \notin {"drawing-diff", "drawing-reload"}
    /\ inbox' = [inbox EXCEPT ![c] = Tail(inbox[c])]
    /\ UNCHANGED <<budget, server, db, clientVars, reqs, resps, histVars, refused, lastAnswer>>
    /\ UNCHANGED snapshotVars

\* The connection that new Pusher(...) opened is established: it has a
\* socket id and the subscription to the channel is in force.
PusherConnected(c) ==
    /\ ~closed[c]
    /\ pusher[c] = "connecting"
    /\ pusher' = [pusher EXCEPT ![c] = "connected"]
    /\ UNCHANGED <<budget, server, db, store, loadingState, isUpdatingFromRemote,
                   isDirtyRef, pendingChangesRef, throttledSave, throttledBroadcast,
                   closed, inbox, reqs, resps, histVars, refused, lastAnswer>>
    /\ UNCHANGED snapshotVars

\* ------------------------------------------------------------------ server

\* pusher.trigger(channel, name, data, {socket_id}): the transport refuses a
\* payload over its limit with status 413, otherwise every other subscriber
\* of the channel gets the event.
TooLarge(data) == data # <<>> /\ SizeOf(data[1]) > TransportLimit

Publish(boxes, name, data, rq) ==
    [c \in Clients |->
        IF closed[c] \/ pusher[c] # "connected" \/ rq.socketId = <<c>>
        THEN boxes[c]
        ELSE Append(boxes[c], [name |-> name,
                               changes |-> IF data = <<>> THEN EmptyChanges ELSE data[1],
                               covers |-> rq.covers, burst |-> rq.burst,
                               origin |-> rq.from])]

\* the answer to request rq, when a continuation of the client waits for it;
\* the answer to a caller that is no client is kept with the row it found
Respond(rq, status, body) ==
    /\ IF rq.ctx \in {"save", "saveImmediate", "load", "reload"} /\ ~closed[rq.from]
       THEN resps' = resps (+) SetToBag({[to |-> rq.from, ctx |-> rq.ctx,
                                           status |-> status, body |-> body]})
       ELSE UNCHANGED resps
    /\ lastAnswer' = IF rq.ctx = "api"
                     THEN <<[rq |-> rq, status |-> status, body |-> body, row |-> db]>>
                     ELSE lastAnswer

\* Drawing.findOneAndUpdate({id}, {snapshot}, {upsert: true}) on the rows of
\* the document: the row is given the snapshot, and made when there is none.
\* The first definition inserts a row without looking for one.
findOneAndUpdateInserting(rows, snapshot) == rows \o snapshot

findOneAndUpdate(rows, snapshot) == snapshot

\* What can happen to a request: the handler answers ("ok"), the storage
\* fails in the handler ("error"), or no response comes and fetch rejects
\* ("throw"), told to the client as status 0.
Outcomes == IF budget.faults > 0 THEN {"ok", "error", "throw"} ELSE {"ok"}

Spend(outcome) ==
    budget' = IF outcome = "ok" THEN budget ELSE [budget EXCEPT !.faults = @ - 1]

\* app.get('/api/drawing')
GetDrawingHandler(rq) ==
    /\ BagIn(rq, reqs)
    /\ rq.method = "GET" /\ rq.path = "/api/drawing"
    /\ reqs' = reqs (-) SetToBag({rq})
    /\ \E outcome \in Outcomes :
          /\ Spend(outcome)
          /\ CASE outcome = "ok" -> Respond(rq, 200, db)
               [] outcome = "error" -> Respond(rq, 500, <<>>)
               [] outcome = "throw" -> Respond(rq, 0, <<>>)
    /\ UNCHANGED <<server, db, clientVars, inbox, histVars, refused>>
    /\ UNCHANGED snapshotVars

\* app.post('/api/drawing')
PostDrawingHandler(rq) ==
    /\ BagIn(rq, reqs)
    /\ rq.method = "POST" /\ rq.path = "/api/drawing"
    /\ reqs' = reqs (-) SetToBag({rq})
    /\ \E outcome \in Outcomes :
          /\ Spend(outcome)
          /\ IF rq.snapshot = <<>>
             THEN /\ UNCHANGED db
                  /\ Respond(rq, IF outcome = "throw" THEN 0 ELSE 400, <<>>)
             ELSE CASE outcome = "ok" -> /\ db' = findOneAndUpdate(db, rq.snapshot)
                                         /\ Respond(rq, 200, <<>>)
                    [] outcome = "error" -> /\ UNCHANGED db
                                            /\ Respond(rq, 500, <<>>)
                    [] outcome = "throw" -> /\ UNCHANGED db
                                            /\ Respond(rq, 0, <<>>)
    /\ UNCHANGED <<server, clientVars, inbox, histVars, refused>>
    /\ UNCHANGED snapshotVars

\* The Pusher variables of the deployment, which the build gives to the
\* pages and the functions alike, are set.
PusherConfigured == \A c \in Clients : pusher[c] # "unconfigured"

Served(rq, status, triggers) ==
    /\ refused' = IF TooLarge(rq.changes)
                  THEN <<[status |-> status, triggers |-> triggers]>>
                  ELSE refused
    /\ lastAnswer' = IF rq.ctx = "api"
                     THEN <<[rq |-> rq, status |-> status, body |-> <<>>, row |-> db]>>
                     ELSE lastAnswer

\* app.post('/api/pusher-trigger') of server.js: the snapshot, when there is
\* one, is persisted; the changes are published as drawing-diff, and when the
\* transport refuses them as too large, drawing-sync-request is published.
ExpressTrigger(rq) ==
    /\ db' = IF rq.snapshot # <<>> THEN findOneAndUpdate(db, rq.snapshot) ELSE db
    /\ IF rq.changes = <<>>
       THEN /\ UNCHANGED inbox
            /\ Served(rq, 200, <<>>)
       ELSE IF ~TooLarge(rq.changes)
       THEN /\ inbox' = Publish(inbox, "drawing-diff", rq.changes, rq)
            /\ Served(rq, 200, <<[name |-> "drawing-diff", ok |-> TRUE]>>)
       ELSE /\ inbox' = Publish(inbox, "drawing-sync-request", <<>>, rq)
            /\ Served(rq, 200, <<[name |-> "drawing-diff", ok |-> FALSE],
                                 [name |-> "drawing-sync-request", ok |-> TRUE]>>)

\* handler of api/pusher-trigger: the snapshot, when there is one, is
\* persisted; triggerReload publishes drawing-reload; the changes are
\* published as drawing-diff, and a refusal of the transport answers 500.
VercelTrigger(rq) ==
    LET reloaded == IF rq.triggerReload
                    THEN Publish(inbox, "drawing-reload", <<>>, rq)
                    ELSE inbox
        t1 == IF rq.triggerReload THEN <<[name |-> "drawing-reload", ok |-> TRUE]>>
              ELSE <<>>
    IN  IF ~PusherConfigured
        THEN \* 500 'Pusher server-side configuration missing', before anything
             /\ UNCHANGED <<db, inbox>>
             /\ Served(rq, 500, <<>>)
        ELSE
        /\ db' = IF rq.snapshot # <<>> THEN findOneAndUpdate(db, rq.snapshot) ELSE db
        /\ IF rq.changes = <<>>
           THEN /\ inbox' = reloaded
                /\ Served(rq, 200, t1)
           ELSE IF ~TooLarge(rq.changes)
           THEN /\ inbox' = Publish(reloaded, "drawing-diff", rq.changes, rq)
                /\ Served(rq, 200, Append(t1, [name |-> "drawing-diff", ok |-> TRUE]))
           ELSE /\ inbox' = reloaded
                /\ Served(rq, 500, Append(t1, [name |-> "drawing-diff", ok |-> FALSE]))

\* What the durable write of the handler can do: findOneAndUpdate is
\* awaited only when the body has a snapshot, and in the serverless handler
\* only past the check of the configuration.
PersistOutcomes(rq) ==
    IF rq.snapshot # <<>> /\ (server = "express" \/ PusherConfigured)
    THEN Outcomes \ {"throw"}
    ELSE {"ok"}

\* The write threw: the catch of the handler answers 500. The first
\* definition has published the events of the request before the write.
PersistFailedAfterPublish(rq) ==
    /\ UNCHANGED db
    /\ inbox' = Publish(IF rq.triggerReload
                        THEN Publish(inbox, "drawing-reload", <<>>, rq)
                        ELSE inbox,
                        "drawing-diff", rq.changes, rq)
    /\ Served(rq, 500, <<>>)

PersistFailed(rq) ==
    /\ UNCHANGED <<db, inbox>>
    /\ Served(rq, 500, <<>>)

PusherTriggerHandler(rq) ==
    /\ BagIn(rq, reqs)
    /\ rq.method = "POST" /\ rq.path = "/api/pusher-trigger"
    /\ reqs' = reqs (-) SetToBag({rq})
    /\ \E outcome \in PersistOutcomes(rq) :
          /\ Spend(outcome)
          /\ IF outcome = "error" THEN PersistFailed(rq)
             ELSE IF server = "express" THEN ExpressTrigger(rq)
             ELSE VercelTrigger(rq)
    /\ UNCHANGED <<server, clientVars, resps, histVars>>
    /\ UNCHANGED snapshotVars

\* ------------------------------------------------------------------ time

Open == {c \in Clients : ~closed[c]}

\* Time passes by one tick; with no throttler counting and no timer waiting,
\* the passing of time changes nothing.
Tick ==
    /\ \E c \in Open : Running(throttledSave[c]) \/ Running(throttledBroadcast[c])
    /\ throttledSave' = [c \in Clients |-> Elapse(throttledSave[c])]
    /\ throttledBroadcast' = [c \in Clients |-> Elapse(throttledBroadcast[c])]
    /\ UNCHANGED <<budget, server, db, store, loadingState, isUpdatingFromRemote,
                   isDirtyRef, pendingChangesRef, closed, pusher, inbox, reqs, resps, histVars,
                   refused, lastAnswer>>
    /\ UNCHANGED snapshotVars

\* ------------------------------------------------------------------ specification

Next ==
    \/ Tick
    \/ \E c \in Clients : \E ch \in UserChanges(store[c]) : UserEdit(c, ch)
    \/ \E c \in Clients : \E h \in 1..2 : BroadcastTimer(c, h)
    \/ \E c \in Clients : \E h \in 1..2 : SaveTimer(c, h)
    \/ \E c \in Clients : \E rsp \in BagToSet(resps) : SaveResponse(c, rsp)
    \/ \E c \in Clients : \E rsp \in BagToSet(resps) : LoadResponse(c, rsp)
    \/ \E c \in Clients : BeforeUnload(c)
    \/ \E c \in Clients : ReceiveDiff(c)
    \/ \E c \in Clients : ReceiveReload(c)
    \/ \E c \in Clients : ReceiveUnbound(c)
    \/ \E rq \in BagToSet(reqs) : GetDrawingHandler(rq)
    \/ \E rq \in BagToSet(reqs) : PostDrawingHandler(rq)
    \/ \E rq \in BagToSet(reqs) : PusherTriggerHandler(rq)

Spec == Init /\ [][Next]_vars

\* One client alone with the server: the other page is never opened.
InitSolo ==
    /\ budget = [edits |-> MaxSoloEdits, unloads |-> MaxUnloads, faults |-> 0,
                 calls |-> 0]
    /\ server = "vercel"
    /\ db = <<>>
    /\ store = [c \in Clients |-> EmptyMap]
    /\ loadingState = [c \in Clients |-> "loading"]
    /\ isUpdatingFromRemote = [c \in Clients |-> FALSE]
    /\ isDirtyRef = [c \in Clients |-> FALSE]
    /\ pendingChangesRef = [c \in Clients |-> EmptyChanges]
    /\ throttledSave = [c \in Clients |-> NewThrottler(SaveDelay)]
    /\ throttledBroadcast = [c \in Clients |-> NewThrottler(BroadcastDelay)]
    /\ closed = [c \in Clients |-> c # "A"]
    /\ pusher = [c \in Clients |-> "connected"]
    /\ inbox = [c \in Clients |-> <<>>]
    /\ reqs = SeqToBag(MountRequests("A"))
    /\ resps = EmptyBag
    /\ window = [c \in Clients |-> <<>>]
    /\ burst = [c \in Clients |-> {}]
    /\ unsent = [c \in Clients |-> FALSE]
    /\ failed = [c \in Clients |-> FALSE]
    /\ lastUpdateTimestamp = [c \in Clients |-> 0]
    /\ clock = [c \in Clients |-> 0]
    /\ removedIds = {}
    /\ refused = <<>>
    /\ lastAnswer = <<>>

NextSolo ==
    \/ Tick
    \/ \E c \in Clients : \E ch \in UserChanges(store[c]) : UserEdit(c, ch)
    \/ \E c \in Clients : \E h \in 1..2 : BroadcastTimer(c, h)
    \/ \E c \in Clients : \E h \in 1..2 : SaveTimer(c, h)
    \/ \E c \in Clients : \E rsp \in BagToSet(resps) : SaveResponse(c, rsp)
    \/ \E c \in Clients : \E rsp \in BagToSet(resps) : LoadResponse(c, rsp)
    \/ \E c \in Clients : BeforeUnload(c)
    \/ \E rq \in BagToSet(reqs) : GetDrawingHandler(rq)
    \/ \E rq \in BagToSet(reqs) : PostDrawingHandler(rq)
    \/ \E rq \in BagToSet(reqs) : PusherTriggerHandler(rq)

SpecSolo == InitSolo /\ [][NextSolo]_vars

\* Client A alone on a deployment without the Pusher variables: no Pusher
\* object, no subscription, and the trigger function refuses every request.
InitDegraded ==
    /\ budget = [edits |-> MaxSoloEdits, unloads |-> MaxUnloads, faults |-> 0,
                 calls |-> 0]
    /\ server = "vercel"
    /\ db = <<>>
    /\ store = [c \in Clients |-> EmptyMap]
    /\ loadingState = [c \in Clients |-> "loading"]
    /\ isUpdatingFromRemote = [c \in Clients |-> FALSE]
    /\ isDirtyRef = [c \in Clients |-> FALSE]
    /\ pendingChangesRef = [c \in Clients |-> EmptyChanges]
    /\ throttledSave = [c \in Clients |-> NewThrottler(SaveDelay)]
    /\ throttledBroadcast = [c \in Clients |-> NewThrottler(BroadcastDelay)]
    /\ closed = [c \in Clients |-> c # "A"]
    /\ pusher = [c \in Clients |-> "unconfigured"]
    /\ inbox = [c \in Clients |-> <<>>]
    /\ reqs = SeqToBag(MountRequests("A"))
    /\ resps = EmptyBag
    /\ window = [c \in Clients |-> <<>>]
    /\ burst = [c \in Clients |-> {}]
    /\ unsent = [c \in Clients |-> FALSE]
    /\ failed = [c \in Clients |-> FALSE]
    /\ lastUpdateTimestamp = [c \in Clients |-> 0]
    /\ clock = [c \in Clients |-> 0]
    /\ removedIds = {}
    /\ refused = <<>>
    /\ lastAnswer = <<>>

SpecDegraded == InitDegraded /\ [][NextSolo]_vars

\* The drawing API called by a program that is no page of the application:
\* it sends any request to /api/drawing, with no snapshot in the body, an
\* empty one or one with a record.
ApiSnapshots ==
    {<<>>, <<EmptyMap>>}
        \cup {<<MapPut(EmptyMap, id, Rec(id, v))>> : id \in Ids, v \in 1..2}

ApiRequest(method, snapshot) ==
    /\ budget.calls > 0
    /\ budget' = [budget EXCEPT !.calls = @ - 1]
    /\ reqs' = reqs (+) SetToBag({Request("api", method, "/api/drawing",
                                           IF method = "POST" THEN snapshot ELSE <<>>,
                                           <<>>, FALSE, "api")})
    /\ UNCHANGED <<server, db, clientVars, inbox, resps, histVars, refused, lastAnswer>>
    /\ UNCHANGED snapshotVars

InitApi ==
    /\ budget = [edits |-> 0, unloads |-> 0, faults |-> 0, calls |-> MaxApiCalls]
    /\ server \in {"express", "vercel"}
    /\ db \in ApiSnapshots \ {<<EmptyMap>>}
    /\ store = [c \in Clients |-> EmptyMap]
    /\ loadingState = [c \in Clients |-> "loading"]
    /\ isUpdatingFromRemote = [c \in Clients |-> FALSE]
    /\ isDirtyRef = [c \in Clients |-> FALSE]
    /\ pendingChangesRef = [c \in Clients |-> EmptyChanges]
    /\ throttledSave = [c \in Clients |-> NewThrottler(SaveDelay)]
    /\ throttledBroadcast = [c \in Clients |-> NewThrottler(BroadcastDelay)]
    /\ closed = [c \in Clients |-> TRUE]
    /\ pusher = [c \in Clients |-> "connected"]
    /\ inbox = [c \in Clients |-> <<>>]
    /\ reqs = EmptyBag
    /\ resps = EmptyBag
    /\ window = [c \in Clients |-> <<>>]
    /\ burst = [c \in Clients |-> {}]
    /\ unsent = [c \in Clients |-> FALSE]
    /\ failed = [c \in Clients |-> FALSE]
    /\ lastUpdateTimestamp = [c \in Clients |-> 0]
    /\ clock = [c \in Clients |-> 0]
    /\ removedIds = {}
    /\ refused = <<>>
    /\ lastAnswer = <<>>

NextApi ==
    \/ \E method \in {"GET", "POST"} : \E snapshot \in ApiSnapshots :
          ApiRequest(method, snapshot)
    \/ \E rq \in BagToSet(reqs) : GetDrawingHandler(rq)
    \/ \E rq \in BagToSet(reqs) : PostDrawingHandler(rq)

SpecApi == InitApi /\ [][NextApi]_vars

\* The same program posts to /api/pusher-trigger, with a snapshot in the
\* body, which that endpoint persists, with changes and with triggerReload.
ApiTriggerRequest(snapshot, changes, triggerReload) ==
    /\ budget.calls > 0
    /\ budget' = [budget EXCEPT !.calls = @ - 1]
    /\ reqs' = reqs (+) SetToBag({[Request("api", "POST", "/api/drawing", snapshot,
                                            changes, triggerReload, "api")
                                      EXCEPT !.path = "/api/pusher-trigger"]})
    /\ UNCHANGED <<server, db, clientVars, inbox, resps, histVars, refused, lastAnswer>>
    /\ UNCHANGED snapshotVars

NextRows ==
    \/ \E method \in {"GET", "POST"} : \E snapshot \in ApiSnapshots :
          ApiRequest(method, snapshot)
    \/ \E snapshot \in ApiSnapshots : ApiTriggerRequest(snapshot, <<>>, FALSE)
    \/ \E rq \in BagToSet(reqs) : GetDrawingHandler(rq)
    \/ \E rq \in BagToSet(reqs) : PostDrawingHandler(rq)
    \/ \E rq \in BagToSet(reqs) : PusherTriggerHandler(rq)

SpecRows == InitApi /\ [][NextRows]_vars

\* One page is open, its user idle, while that program posts to
\* /api/pusher-trigger and the storage can fail.
TriggerSnapshots == {<<>>, <<MapPut(EmptyMap, "s1", Rec("s1", 1))>>}

TriggerChanges ==
    {<<>>, <<[EmptyChanges EXCEPT !.added = MapPut(EmptyMap, "s2", Rec("s2", 1))]>>}

InitTrigger ==
    /\ budget = [edits |-> 0, unloads |-> 0, faults |-> MaxFaults,
                 calls |-> MaxApiCalls]
    /\ server \in {"express", "vercel"}
    /\ db = <<>>
    /\ store = [c \in Clients |-> EmptyMap]
    /\ loadingState = [c \in Clients |-> "loading"]
    /\ isUpdatingFromRemote = [c \in Clients |-> FALSE]
    /\ isDirtyRef = [c \in Clients |-> FALSE]
    /\ pendingChangesRef = [c \in Clients |-> EmptyChanges]
    /\ throttledSave = [c \in Clients |-> NewThrottler(SaveDelay)]
    /\ throttledBroadcast = [c \in Clients |-> NewThrottler(BroadcastDelay)]
    /\ closed = [c \in Clients |-> c # "A"]
    /\ pusher = [c \in Clients |-> "connected"]
    /\ inbox = [c \in Clients |-> <<>>]
    /\ reqs = SeqToBag(MountRequests("A"))
    /\ resps = EmptyBag
    /\ window = [c \in Clients |-> <<>>]
    /\ burst = [c \in Clients |-> {}]
    /\ unsent = [c \in Clients |-> FALSE]
    /\ failed = [c \in Clients |-> FALSE]
    /\ lastUpdateTimestamp = [c \in Clients |-> 0]
    /\ clock = [c \in Clients |-> 0]
    /\ removedIds = {}
    /\ refused = <<>>
    /\ lastAnswer = <<>>

NextTrigger ==
    \/ \E snapshot \in TriggerSnapshots : \E changes \in TriggerChanges :
          \E triggerReload \in BOOLEAN :
             ApiTriggerRequest(snapshot, changes, triggerReload)
    \/ \E rq \in BagToSet(reqs) : PusherTriggerHandler(rq)
    \/ \E rq \in BagToSet(reqs) : GetDrawingHandler(rq)
    \/ \E c \in Clients : \E rsp \in BagToSet(resps) : LoadResponse(c, rsp)
    \/ \E c \in Clients : ReceiveDiff(c)
    \/ \E c \in Clients : ReceiveReload(c)

SpecTrigger == InitTrigger /\ [][NextTrigger]_vars

\* Client A, ready on any store over two ids, gets any diff over these ids
\* delivered twice in a row.
ApplyIds == {"s1", "p1"}

ApplyStores ==
    UNION {[ids -> {1, 2}] : ids \in SUBSET ApplyIds}

ApplyDiffs ==
    {[added |-> [i \in DOMAIN a |-> Rec(i, a[i])],
      updated |-> [i \in DOMAIN u |-> <<Rec(i, 3 - u[i]), Rec(i, u[i])>>],
      removed |-> [i \in DOMAIN r |-> Rec(i, r[i])]] :
        a \in ApplyStores, u \in ApplyStores, r \in ApplyStores}

InitApply ==
    /\ budget = [edits |-> 0, unloads |-> 0, faults |-> 0, calls |-> 0]
    /\ server = "vercel"
    /\ db = <<>>
    /\ \E st \in ApplyStores :
          store = [c \in Clients |-> IF c = "A" THEN [i \in DOMAIN st |-> Rec(i, st[i])]
                                     ELSE EmptyMap]
    /\ loadingState = [c \in Clients |-> IF c = "A" THEN "ready" ELSE "loading"]
    /\ isUpdatingFromRemote = [c \in Clients |-> FALSE]
    /\ isDirtyRef = [c \in Clients |-> FALSE]
    /\ pendingChangesRef = [c \in Clients |-> EmptyChanges]
    /\ throttledSave = [c \in Clients |-> NewThrottler(SaveDelay)]
    /\ throttledBroadcast = [c \in Clients |-> NewThrottler(BroadcastDelay)]
    /\ closed = [c \in Clients |-> c # "A"]
    /\ pusher = [c \in Clients |-> "connected"]
    /\ \E ch \in ApplyDiffs :
          LET ev == [name |-> "drawing-diff", changes |-> ch, covers |-> <<>>,
                     burst |-> {}, origin |-> "B"]
          IN  inbox = [c \in Clients |-> IF c = "A" THEN <<ev, ev>> ELSE <<>>]
    /\ reqs = EmptyBag
    /\ resps = EmptyBag
    /\ window = [c \in Clients |-> <<>>]
    /\ burst = [c \in Clients |-> {}]
    /\ unsent = [c \in Clients |-> FALSE]
    /\ failed = [c \in Clients |-> FALSE]
    /\ lastUpdateTimestamp = [c \in Clients |-> 0]
    /\ clock = [c \in Clients |-> 0]
    /\ removedIds = {}
    /\ refused = <<>>
    /\ lastAnswer = <<>>

NextApply == \E c \in Clients : ReceiveDiff(c)

SpecApply == InitApply /\ [][NextApply]_vars

\* Client A alone on the serverless deployment from the moment of its
\* mount, when its realtime connection is still being opened.
InitConnect ==
    /\ budget = [edits |-> MaxEdits, unloads |-> MaxUnloads, faults |-> 0, calls |-> 0]
    /\ server = "vercel"
    /\ db = <<>>
    /\ store = [c \in Clients |-> EmptyMap]
    /\ loadingState = [c \in Clients |-> "loading"]
    /\ isUpdatingFromRemote = [c \in Clients |-> FALSE]
    /\ isDirtyRef = [c \in Clients |-> FALSE]
    /\ pendingChangesRef = [c \in Clients |-> EmptyChanges]
    /\ throttledSave = [c \in Clients |-> NewThrottler(SaveDelay)]
    /\ throttledBroadcast = [c \in Clients |-> NewThrottler(BroadcastDelay)]
    /\ closed = [c \in Clients |-> c # "A"]
    /\ pusher = [c \in Clients |-> "connecting"]
    /\ inbox = [c \in Clients |-> <<>>]
    /\ reqs = SeqToBag(MountRequests("A"))
    /\ resps = EmptyBag
    /\ window = [c \in Clients |-> <<>>]
    /\ burst = [c \in Clients |-> {}]
    /\ unsent = [c \in Clients |-> FALSE]
    /\ failed = [c \in Clients |-> FALSE]
    /\ lastUpdateTimestamp = [c \in Clients |-> 0]
    /\ clock = [c \in Clients |-> 0]
    /\ removedIds = {}
    /\ refused = <<>>
    /\ lastAnswer = <<>>

NextConnect ==
    \/ Tick
    \/ \E c \in Clients : PusherConnected(c)
    \/ \E c \in Clients : \E ch \in UserChanges(store[c]) : UserEdit(c, ch)
    \/ \E c \in Clients : \E h \in 1..2 : BroadcastTimer(c, h)
    \/ \E c \in Clients : \E h \in 1..2 : SaveTimer(c, h)
    \/ \E c \in Clients : \E rsp \in BagToSet(resps) : SaveResponse(c, rsp)
    \/ \E c \in Clients : \E rsp \in BagToSet(resps) : LoadResponse(c, rsp)
    \/ \E c \in Clients : BeforeUnload(c)
    \/ \E c \in Clients : ReceiveDiff(c)
    \/ \E c \in Clients : ReceiveReload(c)
    \/ \E rq \in BagToSet(reqs) : GetDrawingHandler(rq)
    \/ \E rq \in BagToSet(reqs) : PostDrawingHandler(rq)
    \/ \E rq \in BagToSet(reqs) : PusherTriggerHandler(rq)

SpecConnect == InitConnect /\ [][NextConnect]_vars

\* The two clients on the serverless deployment, whose users also move
\* their views.
InitSession ==
    /\ budget = [edits |-> MaxSessionEdits, unloads |-> MaxUnloads, faults |-> 0,
                 calls |-> 0]
    /\ server = "vercel"
    /\ db = <<>>
    /\ InitClients

NextSession ==
    \/ Tick
    \/ \E c \in Clients : \E ch \in UserChanges(store[c]) : UserEdit(c, ch)
    \/ \E c \in Clients : \E ch \in SessionChanges(store[c]) : SessionEdit(c, ch)
    \/ \E c \in Clients : \E h \in 1..2 : BroadcastTimer(c, h)
    \/ \E c \in Clients : \E h \in 1..2 : SaveTimer(c, h)
    \/ \E c \in Clients : \E rsp \in BagToSet(resps) : SaveResponse(c, rsp)
    \/ \E c \in Clients : \E rsp \in BagToSet(resps) : LoadResponse(c, rsp)
    \/ \E c \in Clients : BeforeUnload(c)
    \/ \E c \in Clients : ReceiveDiff(c)
    \/ \E c \in Clients : ReceiveReload(c)
    \/ \E rq \in BagToSet(reqs) : GetDrawingHandler(rq)
    \/ \E rq \in BagToSet(reqs) : PostDrawingHandler(rq)
    \/ \E rq \in BagToSet(reqs) : PusherTriggerHandler(rq)

SpecSession == InitSession /\ [][NextSession]_vars

\* The two clients on the serverless deployment, where no event without a
\* handler is published, with a storage, a network or a store method that
\* can fail.
InitFault ==
    /\ budget = [edits |-> MaxEdits, unloads |-> MaxUnloads, faults |-> MaxFaults,
                 calls |-> 0]
    /\ server = "vercel"
    /\ db = <<>>
    /\ InitClients

NextFault ==
    \/ Tick
    \/ \E c \in Clients : \E ch \in UserChanges(store[c]) : UserEdit(c, ch)
    \/ \E c \in Clients : \E h \in 1..2 : BroadcastTimer(c, h)
    \/ \E c \in Clients : \E h \in 1..2 : SaveTimer(c, h)
    \/ \E c \in Clients : \E rsp \in BagToSet(resps) : SaveResponse(c, rsp)
    \/ \E c \in Clients : \E rsp \in BagToSet(resps) : LoadResponse(c, rsp)
    \/ \E c \in Clients : BeforeUnload(c)
    \/ \E c \in Clients : ReceiveDiff(c)
    \/ \E c \in Clients : ReceiveReload(c)
    \/ \E rq \in BagToSet(reqs) : GetDrawingHandler(rq)
    \/ \E rq \in BagToSet(reqs) : PostDrawingHandler(rq)
    \/ \E rq \in BagToSet(reqs) : PusherTriggerHandler(rq)

SpecFault == InitFault /\ [][NextFault]_vars

\* One client alone opens the page, and is told to reload, on a row that
\* some earlier POST has written: no row, a snapshot with no record, a
\* snapshot with a shape, or a value that is no snapshot.
StartupRows == {<<>>, <<EmptyMap>>, <<MapPut(EmptyMap, "s1", Rec("s1", 1))>>, <<Foreign>>}

InitStartup ==
    /\ budget = [edits |-> MaxEdits, unloads |-> MaxUnloads, faults |-> 0,
                 calls |-> 1]
    /\ server = "vercel"
    /\ db \in StartupRows
    /\ store = [c \in Clients |-> EmptyMap]
    /\ loadingState = [c \in Clients |-> "loading"]
    /\ isUpdatingFromRemote = [c \in Clients |-> FALSE]
    /\ isDirtyRef = [c \in Clients |-> FALSE]
    /\ pendingChangesRef = [c \in Clients |-> EmptyChanges]
    /\ throttledSave = [c \in Clients |-> NewThrottler(SaveDelay)]
    /\ throttledBroadcast = [c \in Clients |-> NewThrottler(BroadcastDelay)]
    /\ closed = [c \in Clients |-> c # "A"]
    /\ pusher = [c \in Clients |-> "connected"]
    /\ inbox = [c \in Clients |-> <<>>]
    /\ reqs = SeqToBag(MountRequests("A"))
    /\ resps = EmptyBag
    /\ window = [c \in Clients |-> <<>>]
    /\ burst = [c \in Clients |-> {}]
    /\ unsent = [c \in Clients |-> FALSE]
    /\ failed = [c \in Clients |-> FALSE]
    /\ lastUpdateTimestamp = [c \in Clients |-> 0]
    /\ clock = [c \in Clients |-> 0]
    /\ removedIds = {}
    /\ refused = <<>>
    /\ lastAnswer = <<>>

\* the page and the server, and once a caller that has a reload signal
\* published
NextStartup ==
    \/ NextSolo
    \/ ApiTriggerRequest(<<>>, <<>>, TRUE)
    \/ \E c \in Clients : ReceiveReload(c)

SpecStartup == InitStartup /\ [][NextStartup]_vars

\* ------------------------------------------------------------------ full snapshots

\* The hook of useMongoosePersistence.ts replicates the whole document: at
\* every local edit it posts a snapshot with the time of its clock, and the
\* function publishes it as drawing-update. A snapshot is written here as
\* <<>> when there is no value and as <<[schema, store]>> otherwise, where
\* store is <<>> when the property is missing and <<records>> when not.
DocSnapshot(st) == <<[schema |-> "tldraw", store |-> <<st>>]>>

Persisted == {"shape", "asset", "document", "page"}

\* filterSnapshot. The first definition returns the filtered store alone.
filterSnapshotStoreOnly(snapshot) ==
    IF snapshot = <<>> \/ snapshot[1].store = <<>>
    THEN snapshot
    ELSE LET st == snapshot[1].store[1]
         IN  <<[store |-> <<[i \in {j \in DOMAIN st : st[j].typeName \in Persisted}
                                 |-> st[i]]>>]>>

filterSnapshot(snapshot) ==
    IF snapshot = <<>> \/ snapshot[1].store = <<>>
    THEN snapshot
    ELSE LET st == snapshot[1].store[1]
         IN  <<[snapshot[1] EXCEPT
                  !.store = <<[i \in {j \in DOMAIN st : st[j].typeName \in Persisted}
                                 |-> st[i]]>>]>>

\* Time passes on the machine of client c.
ClockTick(c) ==
    /\ ~closed[c]
    /\ clock[c] < MaxClock
    /\ clock' = [clock EXCEPT ![c] = @ + 1]
    /\ UNCHANGED <<budget, server, db, clientVars, inbox, reqs, resps, histVars, refused,
                   lastAnswer, lastUpdateTimestamp>>

\* A local user mutation of the store and the listener it triggers, which
\* calls sendUpdate; the throttle of sendUpdate only chooses the time at
\* which it runs.
SendUpdate(c, ch) ==
    /\ ~closed[c]
    /\ loadingState[c] = "ready"
    /\ budget.edits > 0
    /\ budget' = [budget EXCEPT !.edits = @ - 1]
    /\ ch \in UserChanges(store[c])
    /\ LET st == ApplyChanges(store[c], ch)
       IN  /\ store' = [store EXCEPT ![c] = st]
           /\ IF isUpdatingFromRemote[c]
              THEN UNCHANGED <<reqs, lastUpdateTimestamp>>
              ELSE /\ lastUpdateTimestamp' = [lastUpdateTimestamp EXCEPT ![c] = clock[c]]
                   /\ reqs' = reqs (+) SetToBag({
                          [from |-> c, method |-> "POST", path |-> "/api/pusher-trigger",
                           id |-> DRAWING_ID,
                           snapshot |-> filterSnapshot(DocSnapshot(st)),
                           socketId |-> SocketId(c), timestamp |-> clock[c]]})
    /\ UNCHANGED <<server, db, loadingState, isUpdatingFromRemote, isDirtyRef,
                   pendingChangesRef, throttledSave, throttledBroadcast, closed, pusher,
                   inbox, resps, histVars, refused, lastAnswer, clock>>

\* The handler of /api/pusher-trigger that this hook posts to: it persists
\* the snapshot and publishes it as drawing-update with the timestamp of
\* the request, to every subscriber but the sender.
UpdateTriggerHandler(rq) ==
    /\ BagIn(rq, reqs)
    /\ reqs' = reqs (-) SetToBag({rq})
    /\ db' = findOneAndUpdate(db, rq.snapshot)
    /\ inbox' = [c \in Clients |->
                    IF closed[c] \/ pusher[c] # "connected" \/ rq.socketId = <<c>>
                    THEN inbox[c]
                    ELSE Append(inbox[c], [name |-> "drawing-update",
                                           snapshot |-> rq.snapshot,
                                           timestamp |-> rq.timestamp])]
    /\ UNCHANGED <<budget, server, clientVars, resps, histVars, refused, lastAnswer,
                   snapshotVars>>

\* channel.bind('drawing-update', ...). A snapshot without store is not
\* filtered, differs from the local one, and makes loadSnapshot throw out
\* of the handler.
ReceiveUpdate(c) ==
    /\ ~closed[c]
    /\ inbox[c] # <<>>
    /\ Head(inbox[c]).name = "drawing-update"
    /\ inbox' = [inbox EXCEPT ![c] = Tail(inbox[c])]
    /\ LET rawSnapshot == Head(inbox[c]).snapshot
           remoteTimestamp == Head(inbox[c]).timestamp
           newSnapshot == filterSnapshot(rawSnapshot)
           current == filterSnapshot(DocSnapshot(store[c]))
       IN  IF rawSnapshot # <<>> /\ remoteTimestamp > lastUpdateTimestamp[c]
              /\ newSnapshot[1].store # current[1].store
           THEN LET steps == updateFromRemote(
                                store[c], isUpdatingFromRemote[c],
                                IF newSnapshot[1].store = <<>> THEN store[c]
                                ELSE newSnapshot[1].store[1],
                                IF newSnapshot[1].store = <<>> THEN "throws"
                                ELSE "returns")
                IN  /\ store' = [store EXCEPT ![c] = Left(steps).store]
                    /\ isUpdatingFromRemote' =
                           [isUpdatingFromRemote EXCEPT ![c] = Left(steps).updating]
                    /\ lastUpdateTimestamp' =
                           [lastUpdateTimestamp EXCEPT ![c] =
                               IF newSnapshot[1].store = <<>> THEN @
                               ELSE remoteTimestamp]
           ELSE UNCHANGED <<store, isUpdatingFromRemote, lastUpdateTimestamp>>
    /\ UNCHANGED <<budget, server, db, loadingState, isDirtyRef, pendingChangesRef,
                   throttledSave, throttledBroadcast, closed, pusher, reqs, resps,
                   histVars, refused, lastAnswer, clock>>

\* Two pages of this hook after loadInitial found no row, each on a
\* machine with a clock of its own.
InitSnapshots ==
    /\ budget = [edits |-> MaxEdits, unloads |-> 0, faults |-> 0, calls |-> 0]
    /\ server = "vercel"
    /\ db = <<>>
    /\ store = [c \in Clients |-> EmptyMap]
    /\ loadingState = [c \in Clients |-> "ready"]
    /\ isUpdatingFromRemote = [c \in Clients |-> FALSE]
    /\ isDirtyRef = [c \in Clients |-> FALSE]
    /\ pendingChangesRef = [c \in Clients |-> EmptyChanges]
    /\ throttledSave = [c \in Clients |-> NewThrottler(SaveDelay)]
    /\ throttledBroadcast = [c \in Clients |-> NewThrottler(BroadcastDelay)]
    /\ closed = [c \in Clients |-> FALSE]
    /\ pusher = [c \in Clients |-> "connected"]
    /\ inbox = [c \in Clients |-> <<>>]
    /\ reqs = EmptyBag
    /\ resps = EmptyBag
    /\ window = [c \in Clients |-> <<>>]
    /\ burst = [c \in Clients |-> {}]
    /\ unsent = [c \in Clients |-> FALSE]
    /\ failed = [c \in Clients |-> FALSE]
    /\ removedIds = {}
    /\ refused = <<>>
    /\ lastAnswer = <<>>
    /\ lastUpdateTimestamp = [c \in Clients |-> 0]
    /\ clock = [c \in Clients |-> 1]

NextSnapshots ==
    \/ \E c \in Clients : ClockTick(c)
    \/ \E c \in Clients : \E ch \in UserChanges(store[c]) : SendUpdate(c, ch)
    \/ \E rq \in BagToSet(reqs) : UpdateTriggerHandler(rq)
    \/ \E c \in Clients : ReceiveUpdate(c)

SpecSnapshots == InitSnapshots /\ [][NextSnapshots]_vars

\* Snapshots as a sender of any build can put them in a drawing-update
\* event: none, one without store, and one for each set of records taken
\* from one record of each kind.
FilterRecords ==
    {[id |-> "s1", typeName |-> "shape", val |-> 1],
     [id |-> "a1", typeName |-> "asset", val |-> 1],
     [id |-> "d1", typeName |-> "document", val |-> 1],
     [id |-> "p1", typeName |-> "page", val |-> 1],
     [id |-> "c1", typeName |-> "camera", val |-> 1],
     [id |-> "i1", typeName |-> "instance", val |-> 1]}

FilterInputs ==
    {<<>>, <<[schema |-> "tldraw", store |-> <<>>]>>}
    \cup {<<[schema |-> "tldraw", store |-> <<[i \in {r.id : r \in rs} |->
                 CHOOSE r \in rs : r.id = i]>>]>> : rs \in SUBSET FilterRecords}

\* Client A, whose store holds nothing or a shape and its camera, has one
\* drawing-update event to handle.
InitFilter ==
    /\ budget = [edits |-> 1, unloads |-> 0, faults |-> 0, calls |-> 0]
    /\ server = "vercel"
    /\ db = <<>>
    /\ store \in {[c \in Clients |-> IF c = "A" THEN st ELSE EmptyMap] :
                     st \in {EmptyMap,
                             MapPut(MapPut(EmptyMap, "s1", Rec("s1", 1)), "c1", Rec("c1", 1))}}
    /\ loadingState = [c \in Clients |-> "ready"]
    /\ isUpdatingFromRemote = [c \in Clients |-> FALSE]
    /\ isDirtyRef = [c \in Clients |-> FALSE]
    /\ pendingChangesRef = [c \in Clients |-> EmptyChanges]
    /\ throttledSave = [c \in Clients |-> NewThrottler(SaveDelay)]
    /\ throttledBroadcast = [c \in Clients |-> NewThrottler(BroadcastDelay)]
    /\ closed = [c \in Clients |-> FALSE]
    /\ pusher = [c \in Clients |-> "connected"]
    /\ inbox \in {[c \in Clients |->
                      IF c = "A"
                      THEN <<[name |-> "drawing-update", snapshot |-> sn, timestamp |-> 1]>>
                      ELSE <<>>] : sn \in FilterInputs}
    /\ reqs = EmptyBag
    /\ resps = EmptyBag
    /\ window = [c \in Clients |-> <<>>]
    /\ burst = [c \in Clients |-> {}]
    /\ unsent = [c \in Clients |-> FALSE]
    /\ failed = [c \in Clients |-> FALSE]
    /\ removedIds = {}
    /\ refused = <<>>
    /\ lastAnswer = <<>>
    /\ lastUpdateTimestamp = [c \in Clients |-> 0]
    /\ clock = [c \in Clients |-> 1]

SpecFilter == InitFilter /\ [][NextSnapshots]_vars

\* ------------------------------------------------------------------ claims

DiffPosts == {rq \in BagToSet(reqs) : IsDiffPost(rq)}

\* nothing is under way: no request, response or event, no timer, no held call
Quiescent ==
    /\ reqs = EmptyBag
    /\ resps = EmptyBag
    /\ \A c \in Clients :
        /\ inbox[c] = <<>>
        /\ throttledSave[c].timers = {} /\ throttledSave[c].pendingArgs = <<>>
        /\ throttledBroadcast[c].timers = {} /\ throttledBroadcast[c].pendingArgs = <<>>

DbRecords == IF db = <<>> THEN EmptyMap ELSE db[1]

\* C1: once every request, response, event and timer has been processed and
\* both pages are open and loaded, all clients hold the same records and the
\* durable store holds that same set.
C1_Convergence ==
    (Quiescent /\ \A c \in Clients : ~closed[c] /\ loadingState[c] = "ready")
        => /\ \A c, d \in Clients : store[c] = store[d]
           /\ \A c \in Clients : DbRecords = getSnapshot(store[c])

\* the merge of a sequence of change sets, as the accumulator merges them
MergeAll(changeSets) ==
    LET acc[i \in 0..Len(changeSets)] ==
            IF i = 0 THEN EmptyChanges ELSE Accumulate(acc[i - 1], changeSets[i])
    IN  acc[Len(changeSets)]

\* C2: the diff handed to POST /api/pusher-trigger is exactly the merge of the
\* change sets of the local edits made since the previous dispatch.
C2_DrainAtomicity ==
    \A rq \in DiffPosts : rq.changes[1] = MergeAll(rq.covers)


\* C3: a step in which a client takes a drawing-diff event from its channel
\* and merges it into its store sends no request, leaves the dirty flag as it
\* was, and neither schedules a throttled call nor accumulates a change.
C3_NoFeedbackLoop ==
    [][\A c \in Clients :
          (/\ inbox[c] # <<>>
           /\ Head(inbox[c]).name = "drawing-diff"
           /\ ~closed'[c]
           /\ inbox'[c] = Tail(inbox[c]))
          => /\ store'[c] = MergeDiff(store[c], Head(inbox[c]).changes)
             /\ reqs' = reqs
             /\ isDirtyRef'[c] = isDirtyRef[c]
             /\ throttledBroadcast'[c] = throttledBroadcast[c]
             /\ throttledSave'[c] = throttledSave[c]
             /\ pendingChangesRef'[c] = pendingChangesRef[c]]_vars

\* C3 witness: a loaded client holds a record that it neither entered itself
\* nor loaded from the durable store (no row exists yet): a diff was merged.
C3_Witness ==
    \E c \in Clients :
        /\ ~closed[c] /\ loadingState[c] = "ready"
        /\ db = <<>>
        /\ store[c] # EmptyMap
        /\ ~isDirtyRef[c]
        /\ \A rq \in BagToSet(reqs) : rq.from # c

\* C4: a diff larger than the transport limit is never handed to the
\* transport as drawing-diff, a reload-style event is published in its place,
\* and the request is answered with status 413.
C4_SizeFallback ==
    refused # <<>> =>
        /\ refused[1].status = 413
        /\ \A i \in 1..Len(refused[1].triggers) :
              refused[1].triggers[i].name # "drawing-diff"
        /\ \E i \in 1..Len(refused[1].triggers) :
              /\ refused[1].triggers[i].name \in {"drawing-reload", "drawing-sync-request"}
              /\ refused[1].triggers[i].ok

AddedThenRemoved(changeSets, id) ==
    \E i, j \in 1..Len(changeSets) :
        /\ i < j
        /\ id \in DOMAIN changeSets[i].added
        /\ id \in DOMAIN changeSets[j].removed
        /\ \A k \in (j + 1)..Len(changeSets) : id \notin ChangedIds(changeSets[k])

\* C5: a record added by one local edit and removed by a later one before the
\* next dispatch is mentioned nowhere in the dispatched diff.
C5_AddThenRemove ==
    \A rq \in DiffPosts : \A id \in Ids :
        AddedThenRemoved(rq.covers, id) => id \notin ChangedIds(rq.changes[1])

\* C6: when s1 and then s2 were added within one broadcast throttle window of
\* the sender, the drawing-diff event that reaches the other client for that
\* window has both s1 and s2 in added.
C6_Batching ==
    \A c \in Clients : \A i \in 1..Len(inbox[c]) :
        (/\ inbox[c][i].name = "drawing-diff"
         /\ {"s1", "s2"} \subseteq inbox[c][i].burst
         /\ removedIds = {})
        => {"s1", "s2"} \subseteq DOMAIN inbox[c][i].changes.added

\* C7: the read that a client issues on receipt of a reload signal returns a
\* snapshot that contains the asset record.
C7_AssetPathOrdering ==
    \A rsp \in BagToSet(resps) :
        (rsp.ctx = "reload" /\ "a1" \notin removedIds)
        => /\ rsp.body # <<>>
           /\ "a1" \in DOMAIN rsp.body[1]

\* C8: when a page has closed, every local edit of it has been sent in a
\* snapshot, by a save or by the beforeunload handler.
C8_UnloadSafetyNet ==
    \A c \in Clients :
        (closed[c] /\ loadingState[c] = "ready" /\ ~IsEmptySnapshot(getSnapshot(store[c])))
        => ~unsent[c]


\* The event loop runs a timer that is due, and time passes.
FairSolo ==
    /\ SpecSolo
    /\ WF_vars(Tick)
    /\ \A c \in Clients : \A h \in 1..2 :
          WF_vars(BroadcastTimer(c, h)) /\ WF_vars(SaveTimer(c, h))

\* the arguments of the latest call of throttledBroadcast among the edits
\* changeSets: the changes accumulated since the call before it
LatestArgs(changeSets) ==
    LET calls == {k \in 1..Len(changeSets) : ~HasAsset(changeSets[k])}
        last == CHOOSE k \in calls : \A m \in calls : m <= k
        before == {k \in calls : k < last}
        prev == IF before = {} THEN 0 ELSE CHOOSE k \in before : \A m \in before : m <= k
    IN  IF calls = {} THEN EmptyChanges
        ELSE MergeAll(SubSeq(changeSets, prev + 1, last))

\* C9: a throttler never holds a call for ever: whenever it holds one, the
\* wrapped function is run later and nothing is held any more; and the diff
\* that throttledBroadcast's wrapped function sends is the argument of the
\* latest call made before it ran.
C9_TrailingEdge ==
    /\ \A c \in Clients :
          /\ []<>(throttledBroadcast[c].pendingArgs = <<>>)
          /\ []<>(throttledSave[c].pendingArgs = <<>>)
    /\ [](\A rq \in DiffPosts : rq.changes[1] = LatestArgs(rq.covers))

\* C9 witness: two calls were made inside the window opened by an earlier
\* run (the second one added nothing, yet the window has an added record) and
\* were held; the timer has run the wrapped function with the arguments of
\* the second call, and nothing is held any more.
C9_Witness ==
    \E rq \in DiffPosts :
        /\ Len(rq.covers) = 2
        /\ ~HasAsset(rq.covers[1]) /\ ~HasAsset(rq.covers[2])
        /\ DOMAIN rq.covers[2].added = {}
        /\ rq.burst # {}
        /\ rq.changes[1] = Accumulate(EmptyChanges, rq.covers[2])
        /\ ~closed[rq.from]
        /\ throttledBroadcast[rq.from].pendingArgs = <<>>
        /\ throttledBroadcast[rq.from].timers = {}

\* a local edit of client c that calls the two throttled functions
ThrottledCall(c) ==
    /\ budget'.edits < budget.edits
    /\ store'[c] # store[c]
    /\ pendingChangesRef'[c] = EmptyChanges

\* C10: a throttler has at most one timer scheduled, and a call made while a
\* timer is scheduled schedules no second one and, when it does not run at
\* once, leaves its own arguments as the pending ones.
C10_SingleTimer ==
    /\ [](\A c \in Clients :
            /\ Cardinality(throttledBroadcast[c].timers) <= 1
            /\ Cardinality(throttledSave[c].timers) <= 1)
    /\ [][\A c \in Clients :
            ThrottledCall(c) =>
              /\ throttledBroadcast[c].timers # {} =>
                    \/ throttledBroadcast'[c].timers = {}
                    \/ /\ throttledBroadcast'[c].timers = throttledBroadcast[c].timers
                       /\ window'[c] # <<>>
                       /\ throttledBroadcast'[c].pendingArgs =
                            << <<Accumulate(pendingChangesRef[c],
                                            window'[c][Len(window'[c])])>> >>
              /\ throttledSave[c].timers # {} =>
                    \/ throttledSave'[c].timers = {}
                    \/ /\ throttledSave'[c].timers = throttledSave[c].timers
                       /\ throttledSave'[c].pendingArgs = << <<>> >>]_vars

\* C10 witness: two calls were made inside one window: one timer is scheduled
\* and the pending arguments are those of the second call.
C10_Witness ==
    \E c \in Clients :
        /\ ~closed[c]
        /\ Len(window[c]) = 2
        /\ ~HasAsset(window[c][1]) /\ ~HasAsset(window[c][2])
        /\ Cardinality(throttledBroadcast[c].timers) = 1
        /\ throttledBroadcast[c].pendingArgs =
              << <<Accumulate(EmptyChanges, window[c][2])>> >>


\* the responses a step adds
NewResps == {r \in BagToSet(resps') : CopiesIn(r, resps') > CopiesIn(r, resps)}

\* the initial load of client c has not settled yet
LoadUnderWay(c) ==
    \/ \E rq \in BagToSet(reqs) : rq.from = c /\ rq.ctx = "load"
    \/ \E rsp \in BagToSet(resps) : rsp.to = c /\ rsp.ctx = "load"

C12_LoadFailure ==
    [][\A c \in Clients : \A rsp \in BagToSet(resps) :
          (LoadResponse(c, rsp) /\ rsp.ctx = "load" /\ ~Ok(rsp.status))
             => loadingState'[c] = "error"]_vars

\* the requests a step adds
NewReqs == {r \in BagToSet(reqs') : CopiesIn(r, reqs') > CopiesIn(r, reqs)}

\* the throttled save of client c runs now, on the leading edge of an edit
\* or when its timer fires with a call held
SaveRuns(c) ==
    \/ \E ch \in UserChanges(store[c]) :
          /\ UserEdit(c, ch)
          /\ ~HasAsset(ch)
          /\ throttled(throttledSave[c], <<>>).run # <<>>
    \/ \E h \in 1..2 :
          /\ SaveTimer(c, h)
          /\ timerCallback(throttledSave[c], h).run # <<>>
          /\ isDirtyRef[c]

\* C13: without the Pusher key and cluster the client still loads and
\* becomes 'ready' (while it is 'loading' its read is under way, and the
\* answer to the read makes it 'ready'); it still sends its throttled durable
\* saves, which the drawing handler stores; and a broadcast request that
\* fails leaves the loading status and the store as they are.
C13_DegradedMode ==
    /\ [](\A c \in Open : loadingState[c] = "loading" => LoadUnderWay(c))
    /\ [][/\ \A c \in Clients : \A rsp \in BagToSet(resps) :
                LoadResponse(c, rsp) => loadingState'[c] = "ready"
          /\ \A c \in Clients :
                (SaveRuns(c) /\ ~IsEmptySnapshot(store'[c]))
                   => \E rq \in NewReqs :
                         /\ rq.method = "POST" /\ rq.path = "/api/drawing"
                         /\ rq.snapshot = <<store'[c]>>
          /\ \A rq \in BagToSet(reqs) :
                (PostDrawingHandler(rq) /\ rq.snapshot # <<>>) => db' = rq.snapshot
          /\ \A rq \in BagToSet(reqs) :
                (PusherTriggerHandler(rq) /\ ~PusherConfigured)
                   => /\ loadingState' = loadingState
                      /\ store' = store
                      /\ resps' = resps]_vars

\* without Pusher, client A is 'ready', a throttled save of its drawing is
\* stored and a broadcast request of its diff has been refused
C13_Witness ==
    /\ pusher["A"] = "unconfigured"
    /\ loadingState["A"] = "ready"
    /\ db # <<>> /\ db = <<store["A"]>>
    /\ budget.edits < MaxSoloEdits
    /\ window["A"] = <<>>
    /\ \A rq \in BagToSet(reqs) : rq.path # "/api/pusher-trigger"

\* C14: a POST to /api/drawing whose snapshot is missing or present but
\* empty is answered 400 and leaves the stored row as it is; a snapshot with
\* records is upserted and answered 200.
C14_SnapshotValidation ==
    [][\A rq \in BagToSet(reqs) :
          PostDrawingHandler(rq)
             => IF rq.snapshot = <<>> \/ IsEmptySnapshot(rq.snapshot[1])
                THEN lastAnswer'[1].status = 400 /\ db' = db
                ELSE lastAnswer'[1].status = 200 /\ db' = rq.snapshot]_vars

\* C15: applying a diff with the drawing-diff handler twice in a row gives
\* the record set that applying it once gives: the second of two deliveries
\* of one event leaves the store as the first one made it.
C15_IdempotentApply ==
    [][\A c \in Clients :
          (ReceiveDiff(c) /\ Len(inbox[c]) = 1) => store'[c] = store[c]]_vars

\* both deliveries of the diff have been applied by client A, whose store
\* holds a record of each id
C15_Witness ==
    /\ inbox["A"] = <<>>
    /\ isUpdatingFromRemote["A"] = FALSE
    /\ DOMAIN store["A"] = ApplyIds
    /\ closed["B"]

\* C16: isUpdatingFromRemote is false whenever no handler is running, also
\* after a handler in which the merge of a diff or the load of a snapshot
\* threw.
C16_FlagReleased == \A c \in Clients : isUpdatingFromRemote[c] = FALSE

\* the step sends nothing and leaves what client c holds for sending alone
NothingOutbound(c) ==
    /\ reqs' = reqs
    /\ isDirtyRef'[c] = isDirtyRef[c]
    /\ pendingChangesRef'[c] = pendingChangesRef[c]
    /\ throttledSave'[c] = throttledSave[c]
    /\ throttledBroadcast'[c] = throttledBroadcast[c]

\* C17: only a change with source 'user' and scope 'document' is
\* accumulated, broadcast or saved: a change of a session record, and the
\* merge of a remote diff, send no request, leave the dirty mark, the pending
\* diff and both throttlers as they are.
C17_EligibilityFilter ==
    [][\A c \in Clients :
          /\ (\E ch \in SessionChanges(store[c]) : SessionEdit(c, ch))
                => NothingOutbound(c)
          /\ ReceiveDiff(c) => NothingOutbound(c)]_vars

\* client A has moved its view while ready, with nothing sent for it, and
\* client B has merged a diff of A
C17_Witness ==
    /\ loadingState["A"] = "ready"
    /\ "c1" \in DOMAIN store["A"]
    /\ "c1" \notin DOMAIN store["B"]
    /\ \E id \in Ids : id \in DOMAIN store["A"] /\ id \in DOMAIN store["B"]
    /\ ~isDirtyRef["B"]
    /\ budget.edits = 0

\* the records a request carries, in its snapshot and in its diff
Carried(rq) ==
    (IF rq.snapshot = <<>> THEN {}
     ELSE {rq.snapshot[1][i] : i \in DOMAIN rq.snapshot[1]})
    \cup
    (IF rq.changes = <<>> THEN {}
     ELSE LET ch == rq.changes[1]
          IN  {ch.added[i] : i \in DOMAIN ch.added}
                \cup {ch.updated[i][1] : i \in DOMAIN ch.updated}
                \cup {ch.updated[i][2] : i \in DOMAIN ch.updated}
                \cup {ch.removed[i] : i \in DOMAIN ch.removed})

\* C18: session state never leaves the client: every record in a diff or a
\* snapshot that a client sends, the save at beforeunload included, is a
\* shape, an asset, a page or a document record.
C18_SessionStaysLocal ==
    \A rq \in BagToSet(reqs) : \A rec \in Carried(rq) : Scope(rec.typeName) = "document"

\* the ids that client c has recorded for the other clients after a step:
\* in its pending diff, in the diff held by throttledBroadcast or in a diff
\* that the step sends
Recorded(c) ==
    ChangedIds(pendingChangesRef'[c])
    \cup (IF throttledBroadcast'[c].pendingArgs = <<>> THEN {}
          ELSE ChangedIds(throttledBroadcast'[c].pendingArgs[1][1]))
    \cup UNION {ChangedIds(rq.changes[1]) : rq \in {x \in NewReqs : IsDiffPost(x)}}

\* C19: every local user change of a shape, an asset, a page or a document
\* record is recorded in the diff that the client keeps for the others.
C19_DurableKindsRecorded ==
    [][\A c \in Clients : \A ch \in UserChanges(store[c]) :
          UserEdit(c, ch) => ChangedIds(ch) \subseteq Recorded(c)]_vars

\* C20: a client never gets on its channel a drawing-diff or drawing-reload
\* event that was published for a request of its own, whatever the state of
\* its realtime connection was when it sent the request.
C20_OriginExclusion ==
    \A c \in Clients : \A k \in 1..Len(inbox[c]) : inbox[c][k].origin # c

\* C21: a local user change that adds or updates an asset starts a durable
\* save of the full snapshot in the same listener call, however recently the
\* last save ran and without going through throttledSave; when that save is
\* answered with success, the client asks for a reload broadcast.
C21_AssetBypass ==
    [][\A c \in Clients :
          /\ \A ch \in UserChanges(store[c]) :
                (UserEdit(c, ch) /\ HasAsset(ch))
                   => /\ \E rq \in NewReqs :
                            /\ rq.from = c /\ rq.method = "POST"
                            /\ rq.path = "/api/drawing"
                            /\ rq.snapshot = <<getSnapshot(store'[c])>>
                            /\ rq.ctx = "saveImmediate"
                      /\ throttledSave'[c] = throttledSave[c]
          /\ \A rsp \in BagToSet(resps) :
                (SaveResponse(c, rsp) /\ rsp.ctx = "saveImmediate" /\ Ok(rsp.status))
                   => \E rq \in NewReqs :
                         /\ rq.from = c /\ rq.path = "/api/pusher-trigger"
                         /\ rq.triggerReload]_vars

\* the immediate save of an asset edit is under way while throttledSave,
\* which ran for an earlier edit, is still inside its delay
C21_Witness ==
    \E rq \in BagToSet(reqs) :
        /\ rq.ctx = "saveImmediate"
        /\ ~closed[rq.from]
        /\ throttledSave[rq.from].elapsed < SaveDelay

\* C22: no diff sent to /api/pusher-trigger holds an asset record in added
\* or updated, the diffs that later edits dispatch after an asset edit
\* included.
C22_NoAssetInDiff ==
    \A rq \in DiffPosts : ~HasAsset(rq.changes[1])

\* C23: a record that local user edits added and then updated while the
\* pending diff was accumulating is in the pending diff in added only, with
\* the value of the latest update, which is the value the store has.
C23_AddedWins ==
    \A c \in Open :
        LET pending == pendingChangesRef[c]
        IN  \A id \in (DOMAIN pending.added) \ (DOMAIN pending.removed) :
                /\ id \notin DOMAIN pending.updated
                /\ pending.added[id] = store[c][id]

\* in the change sets, record id is added or updated, then removed, and
\* not touched again
TouchedThenRemoved(changeSets, id) ==
    \E i, j \in 1..Len(changeSets) :
        /\ i < j
        /\ id \in (DOMAIN changeSets[i].added) \cup (DOMAIN changeSets[i].updated)
        /\ id \in DOMAIN changeSets[j].removed
        /\ \A k \in (j + 1)..Len(changeSets) : id \notin ChangedIds(changeSets[k])

\* C24: a record that local user edits updated or added and then removed
\* while one pending diff was accumulating is neither in added nor in
\* updated of that diff when it is dispatched.
C24_RemovedOverrides ==
    \A rq \in DiffPosts : \A id \in Ids :
        TouchedThenRemoved(rq.covers, id)
           => id \notin (DOMAIN rq.changes[1].added) \cup (DOMAIN rq.changes[1].updated)

\* C25: when the durable saves of a client have all been served, in
\* whatever order, and its last snapshot was taken after its last edit, the
\* durable store holds that last snapshot, which is the client's store.
C25_StaleSavesHarmless ==
    \A c \in Clients :
        (/\ loadingState[c] = "ready"
         /\ ~unsent[c]
         /\ \A rq \in BagToSet(reqs) : rq.from = c => ~IsSnapshotPost(rq))
        => DbRecords = getSnapshot(store[c])

\* C26: a throttled durable save that fails, by a network error or an
\* answer that is not 2xx, leaves the store, the loading status and the
\* dirty mark of the client as they are; and a snapshot of the client is
\* sent again after the failure, by a later save or at the latest by the
\* beforeunload handler when the page closes.
C26_FailedSaveRecovered ==
    /\ [][\A c \in Clients : \A rsp \in BagToSet(resps) :
             (SaveResponse(c, rsp) /\ rsp.ctx = "save" /\ ~Ok(rsp.status))
                => /\ store'[c] = store[c]
                   /\ loadingState'[c] = loadingState[c]
                   /\ isDirtyRef'[c] = isDirtyRef[c]]_vars
    /\ [](\A c \in Clients :
             (/\ closed[c]
              /\ loadingState[c] = "ready"
              /\ ~IsEmptySnapshot(getSnapshot(store[c])))
             => ~failed[c])

\* C27: the pending diff of a client is reset to empty in the very step that
\* dispatches a broadcast request with its content: a step of the listener
\* that resets the diff sends a diff request carrying what the diff held,
\* and a step that sends a diff request carries what the diff held at that
\* step and leaves the diff empty.
C27_ResetAtDispatch ==
    [][\A c \in Clients :
          /\ \A ch \in UserChanges(store[c]) :
                (UserEdit(c, ch) /\ ~HasAsset(ch))
                   => /\ pendingChangesRef'[c] = EmptyChanges
                      /\ \E rq \in NewReqs :
                            /\ rq.from = c
                            /\ IsDiffPost(rq)
                            /\ rq.changes[1] = Accumulate(pendingChangesRef[c], ch)
          /\ \A rq \in NewReqs :
                (rq.from = c /\ IsDiffPost(rq))
                   => /\ pendingChangesRef'[c] = EmptyChanges
                      /\ \E ch \in UserChanges(store[c]) :
                            /\ UserEdit(c, ch)
                            /\ rq.changes[1] = Accumulate(pendingChangesRef[c], ch)]_vars

\* C28: when the answer to the initial read is ok and carries a value that
\* is no valid snapshot, an object without schema and store or a snapshot
\* whose store is empty, the client becomes 'ready' with the empty local
\* document it started with, and not 'error'.
C28_MalformedAtStartup ==
    [][\A c \in Clients : \A rsp \in BagToSet(resps) :
          (/\ LoadResponse(c, rsp)
           /\ rsp.ctx = "load"
           /\ Ok(rsp.status)
           /\ rsp.body # <<>>
           /\ (~HasStore(rsp.body[1]) \/ IsEmptySnapshot(rsp.body[1])))
             => /\ loadingState'[c] = "ready"
                /\ store'[c] = EmptyMap]_vars

\* a write of a snapshot to the row is served in this step
RowWritten(rq) ==
    /\ rq.snapshot # <<>>
    /\ PostDrawingHandler(rq) \/ PusherTriggerHandler(rq)

\* C29: whatever writes POST /api/drawing and POST /api/pusher-trigger have
\* served, the document has at most one row; a write served when there is
\* no row makes the row, with the snapshot of the request; and no step of
\* these endpoints leaves the document without the row it had.
C29_OneRowPerDocument ==
    /\ [](Len(db) <= 1)
    /\ [][\A rq \in BagToSet(reqs) :
             (db = <<>> /\ RowWritten(rq)) => db' = rq.snapshot]_vars
    /\ [][db # <<>> => db' # <<>>]_vars

\* the broadcast endpoint has written a snapshot on the row that an
\* earlier write made, and the row holds that snapshot
C29_Witness ==
    /\ lastAnswer # <<>>
    /\ lastAnswer[1].rq.path = "/api/pusher-trigger"
    /\ lastAnswer[1].rq.snapshot # <<>>
    /\ lastAnswer[1].status = 200
    /\ lastAnswer[1].row # <<>>
    /\ lastAnswer[1].row # db
    /\ budget.calls = 0
    /\ reqs = EmptyBag
    /\ db = lastAnswer[1].rq.snapshot

\* the steps of an inbound handler in which the store is being mutated: the
\* flag is set when the mutating call starts and when it returns
Bracketed(steps) ==
    \A k \in 2..Len(steps) :
        steps[k].at = "mutated" => steps[k - 1].updating /\ steps[k].updating

\* C30: when no merge and no load throws, isUpdatingFromRemote is true
\* while the drawing-diff handler merges a diff into the store and while
\* loadFromDb loads a snapshot into it, and false in every state in which no
\* inbound handler is running.
C30_FlagBracket ==
    /\ [](\A c \in Clients : ~isUpdatingFromRemote[c])
    /\ [][\A c \in Clients :
             /\ ReceiveDiff(c)
                   => Bracketed(updateFromRemote(store[c], isUpdatingFromRemote[c],
                                    MergeDiff(store[c], Head(inbox[c]).changes),
                                    "returns"))
             /\ \A rsp \in BagToSet(resps) :
                   (/\ LoadResponse(c, rsp)
                    /\ Ok(rsp.status)
                    /\ rsp.body # <<>>
                    /\ HasStore(rsp.body[1])
                    /\ ~IsEmptySnapshot(rsp.body[1]))
                   => Bracketed(updateFromRemote(store[c], isUpdatingFromRemote[c],
                                    rsp.body[1], "returns"))]_vars

\* one edit was made, by client d; client c, which made none, holds a
\* record and has handled every event it got: it merged a diff or loaded a
\* snapshot
C30_Witness ==
    \E c, d \in Open :
        /\ c # d
        /\ budget.edits = MaxEdits - 1
        /\ burst[d] # {}
        /\ loadingState[c] = "ready"
        /\ store[c] # EmptyMap
        /\ inbox[c] = <<>>

\* C31: when a client has applied a drawing-diff event, no id of the
\* removed map of the diff has a record in its store, also when the diff has
\* the id in its added or updated map as well.
C31_RemovalsApplied ==
    [][\A c \in Clients :
          ReceiveDiff(c)
             => \A id \in DOMAIN Head(inbox[c]).changes.removed :
                   id \notin DOMAIN store'[c]]_vars

\* the record of id in the store of client c is local work that the row
\* does not hold yet: the user of c added it, the row has no such record,
\* and the client has sent no snapshot since or its save is still under way
LocalWork(c, id) ==
    /\ id \in burst[c] \cap DOMAIN store[c]
    /\ id \notin DOMAIN DbRecords \/ DbRecords[id] # store[c][id]
    /\ \/ unsent[c]
       \/ \E rq \in BagToSet(reqs) :
             /\ rq.from = c
             /\ IsSnapshotPost(rq)
             /\ id \in DOMAIN rq.snapshot[1]
             /\ rq.snapshot[1][id] = store[c][id]

\* C32: when the load that a reload signal started completes, the local
\* work of the client that the row does not hold yet is still in its store.
C32_ReloadKeepsLocalWork ==
    [][\A c \in Clients : \A rsp \in BagToSet(resps) :
          (LoadResponse(c, rsp) /\ rsp.ctx = "reload")
             => \A id \in Ids :
                   LocalWork(c, id)
                      => /\ id \in DOMAIN store'[c]
                         /\ store'[c][id] = store[c][id]]_vars

\* the event names with which the broadcast endpoints tell the clients to
\* fetch the snapshot again
ReloadEvents == {"drawing-reload", "drawing-sync-request"}

\* C33: a step in which an open client takes a drawing-reload or a
\* drawing-sync-request event from its channel sends a GET /api/drawing
\* that refetches the snapshot.
C33_ReloadEventsHandled ==
    [][\A c \in Clients :
          (/\ inbox[c] # <<>>
           /\ Head(inbox[c]).name \in ReloadEvents
           /\ ~closed'[c]
           /\ inbox'[c] = Tail(inbox[c]))
          => GetDrawing(c, TRUE) \in NewReqs]_vars

\* C34: when a request to /api/pusher-trigger carries a snapshot and the
\* durable write fails, the step that serves it publishes no event and
\* answers 500; a step that serves such a request and publishes an event
\* has written the snapshot to the row.
C34_PersistBeforePublish ==
    [][\A rq \in BagToSet(reqs) :
          (PusherTriggerHandler(rq) /\ rq.snapshot # <<>>)
             => /\ budget'.faults < budget.faults
                   => /\ inbox' = inbox
                      /\ db' = db
                      /\ lastAnswer'[1].status = 500
                /\ inbox' # inbox => db' = rq.snapshot]_vars

\* the write of a request with a snapshot and with something to publish
\* has failed and was answered
C34_Witness ==
    /\ lastAnswer # <<>>
    /\ lastAnswer[1].rq.path = "/api/pusher-trigger"
    /\ lastAnswer[1].rq.snapshot # <<>>
    /\ lastAnswer[1].rq.changes # <<>> \/ lastAnswer[1].rq.triggerReload
    /\ lastAnswer[1].status = 500
    /\ budget.faults < MaxFaults
    /\ db = lastAnswer[1].row
    /\ \E c \in Open : pusher[c] = "connected"

IsRowWrite(rq) == rq.method = "POST" /\ rq.path = "/api/drawing"

C36_FailedReloadSilent ==
    [][\A c \in Clients :
          /\ \A rsp \in BagToSet(resps) :
                (LoadResponse(c, rsp) /\ rsp.ctx = "reload" /\ ~Ok(rsp.status))
                   => /\ loadingState'[c] = loadingState[c]
                      /\ store'[c] = store[c]
          /\ (loadingState[c] # "error" /\ loadingState'[c] = "error")
                => \E rsp \in BagToSet(resps) :
                      LoadResponse(c, rsp) /\ rsp.ctx = "load"]_vars

\* C37: no request of a client to POST /api/drawing, from the throttled
\* save, the immediate save or the beforeunload handler, carries a snapshot
\* with no record; and a load whose read returned a snapshot with no record
\* leaves the store as it is.
C37_NoEmptySnapshot ==
    /\ [](\A rq \in BagToSet(reqs) :
             (rq.from \in Clients /\ IsRowWrite(rq))
                => rq.snapshot # <<>> /\ ~IsEmptySnapshot(rq.snapshot[1]))
    /\ [][\A c \in Clients : \A rsp \in BagToSet(resps) :
             (/\ LoadResponse(c, rsp)
              /\ Ok(rsp.status)
              /\ rsp.body # <<>>
              /\ IsEmptySnapshot(rsp.body[1]))
                => /\ store'[c] = store[c]
                   /\ isUpdatingFromRemote'[c] = isUpdatingFromRemote[c]]_vars

\* the page has loaded the row with no record, its user has emptied the
\* store again, and the page was closed with its dirty mark set
C37_Witness ==
    /\ db = <<EmptyMap>>
    /\ closed["A"]
    /\ loadingState["A"] = "ready"
    /\ isDirtyRef["A"]
    /\ removedIds # {}
    /\ IsEmptySnapshot(getSnapshot(store["A"]))

\* C38: in the hook that replicates full snapshots, lastUpdateTimestamp of
\* a client never decreases, whatever it sends and receives; and a received
\* snapshot replaces the store only when its timestamp is greater than
\* lastUpdateTimestamp and its filtered records differ from the filtered
\* local ones.
C38_TimestampMonotone ==
    [][\A c \in Clients :
          /\ lastUpdateTimestamp'[c] >= lastUpdateTimestamp[c]
          /\ (ReceiveUpdate(c) /\ store'[c] # store[c])
                => /\ Head(inbox[c]).timestamp > lastUpdateTimestamp[c]
                   /\ filterSnapshot(Head(inbox[c]).snapshot)
                         # filterSnapshot(DocSnapshot(store[c]))]_vars

\* what C39 says of filterSnapshot for one input
FilterHolds(snapshot) ==
    LET out == filterSnapshot(snapshot)
    IN  /\ IF snapshot = <<>> \/ snapshot[1].store = <<>>
           THEN out = snapshot
           ELSE LET st == snapshot[1].store[1]
                    kept == {i \in DOMAIN st : st[i].typeName \in Persisted}
                IN  /\ out # <<>> /\ out[1].store # <<>>
                    /\ DOMAIN out[1].store[1] = kept
                    /\ \A i \in kept : out[1].store[1][i] = st[i]
                    /\ DOMAIN out[1] = DOMAIN snapshot[1]
                    /\ \A f \in DOMAIN snapshot[1] \ {"store"} : out[1][f] = snapshot[1][f]
        /\ filterSnapshot(out) = out

\* C39: filterSnapshot keeps exactly the records whose typeName is shape,
\* asset, document or page and leaves every other field of the snapshot as
\* it was; it returns a missing snapshot, and a snapshot without store, as
\* given; and filtering twice is filtering once. This holds for every
\* snapshot the hook filters: the one of each event it receives and the one
\* of its own store; and the store loaded from an event holds the kept
\* records of that event.
C39_FilterSnapshot ==
    /\ [](\A c \in Clients :
            /\ FilterHolds(DocSnapshot(store[c]))
            /\ \A i \in DOMAIN inbox[c] : FilterHolds(inbox[c][i].snapshot))
    /\ [][\A c \in Clients :
             (ReceiveUpdate(c) /\ store'[c] # store[c])
                => LET st == Head(inbox[c]).snapshot[1].store[1]
                   IN  store'[c] = [i \in {j \in DOMAIN st : st[j].typeName \in Persisted}
                                      |-> st[i]]]_vars

\* an event with a document record and a camera has been loaded: the
\* document record is in the store, the camera is not
C39_Witness ==
    /\ "d1" \in DOMAIN store["A"]
    /\ "c1" \notin DOMAIN store["A"]
    /\ "s1" \notin DOMAIN store["A"]
    /\ inbox["A"] = <<>>
    /\ lastUpdateTimestamp["A"] = 1

\* execute() of a throttler ran in the step from t to t2
Executed(t, t2) ==
    /\ t2 # t
    /\ t2.elapsed = 0
    /\ t2.pendingArgs = <<>>
    /\ t2.timeout = NoTimer

\* t2 is t after nothing, after a tick of the clock, after one of its timers
\* ran, or after a call of its throttled function
OwnStep(t, t2) ==
    \/ t2 = t
    \/ t2 = Elapse(t)
    \/ \E h \in Due(t) : t2 = timerCallback(t, h).thr
    \/ t2 = throttled(t, IF t2.pendingArgs = <<>> THEN <<>> ELSE t2.pendingArgs[1]).thr

\* C40: a throttler runs its wrapped function no sooner than its delay
\* after the previous run, whatever the calls; and throttledBroadcast and
\* throttledSave have each a state of their own: each changes only by the
\* passing of time, its own calls and its own timer, and the timer of one
\* leaves the other as it was.
C40_RateBound ==
    [][\A c \in Clients :
          ~closed'[c] =>
            /\ Executed(throttledBroadcast[c], throttledBroadcast'[c])
                  => throttledBroadcast[c].elapsed >= BroadcastDelay
            /\ Executed(throttledSave[c], throttledSave'[c])
                  => throttledSave[c].elapsed >= SaveDelay
            /\ OwnStep(throttledBroadcast[c], throttledBroadcast'[c])
            /\ OwnStep(throttledSave[c], throttledSave'[c])
            /\ (\E h \in 1..2 : BroadcastTimer(c, h)) => throttledSave'[c] = throttledSave[c]
            /\ (\E h \in 1..2 : SaveTimer(c, h))
                  => throttledBroadcast'[c] = throttledBroadcast[c]]_vars

\* C40 witness: both throttlers held a call and both timers came due; the
\* timer of throttledBroadcast has run, no sooner than a delay after the
\* previous run, and the timer of throttledSave is still scheduled, due,
\* with its arguments.
C40_Witness ==
    \E c \in Clients :
        /\ ~closed[c]
        /\ throttledBroadcast[c].elapsed = 0
        /\ throttledBroadcast[c].timers = {}
        /\ throttledBroadcast[c].pendingArgs = <<>>
        /\ Due(throttledSave[c]) # {}
        /\ throttledSave[c].elapsed = SaveDelay
        /\ throttledSave[c].pendingArgs # <<>>
        /\ budget.edits = 0

====
